---- MODULE Spec2Model ----
(***************************************************************************)
(* A model of osmnx's graph persistence layer:                             *)
(*   - io.save_graphml / io.load_graphml and the attribute converters      *)
(*     (src/osmnx/io.py), and                                              *)
(*   - the way writer of src/osmnx/osm_xml.py (node order recovery, the    *)
(*     merge of a way's edges and its tags), and                           *)
(*   - the reader of foreign OSM XML (src/osmnx/osm_xml.py): the SAX       *)
(*     content handler and the two passes over the file.                   *)
(*                                                                         *)
(* Texts (Python str) are sequences of lexemes: "[", "]", "{", "}", ", "   *)
(* (a comma), ":", "'" (a quote), number lexemes, "True", "False" and bare *)
(* words.  Two adjacent word lexemes stand for the words separated by a    *)
(* blank.  Typed Python values are records [t |-> type, v |-> payload].    *)
(***************************************************************************)
EXTENDS Integers, Sequences, FiniteSets, TLC

VARIABLES
    G,              \* the caller's graph (typed attribute values)
    doc,            \* the GraphML document on disk (None until a save)
    saves,          \* the gephi flags of the save_graphml calls so far
    filepath,       \* load_graphml argument: NoName or a file name
    graphml_str,    \* load_graphml argument: None or a document
    graph_dtypes,   \* load_graphml argument: None or a map name -> dtype
    node_dtypes,    \* load_graphml argument: None or a map name -> dtype
    edge_dtypes,    \* load_graphml argument: None or a map name -> dtype
    ret,            \* what load_graphml returned (None before, or on error)
    err,            \* the exception that escaped the last call (NoErr if none)
    steps,          \* the phases load_graphml went through, in order
    used,           \* the dtype maps load_graphml converted with
    calls,          \* every call of a dtype: [scope, attr, arg], in order
    parsed,         \* the attribute values after the structural-parse step
    all_edges_df,   \* osm_xml: the rows [u, v] of one way's edges
    cols,           \* osm_xml: the extra columns of all_edges_df
    nd,             \* osm_xml: the nd refs appended to the way element
    way_err,        \* osm_xml: the exception that escaped (NoErr if none)
    way_log,        \* osm_xml: the <<recovered, total>> node counts logged
    path,           \* osm_xml: which branch _append_nodes_as_edge_attrs took
    gdf_edges,      \* osm_xml: the rows of the edge frame handed to the writer
    xml_args,       \* osm_xml: edge_tags, edge_tag_aggs and merge_edges of the save
    root,           \* osm_xml: the way elements appended to the tree, in order
    events,         \* osm_xml: the SAX events delivered to the handler so far
    heap,           \* osm_xml: the record dicts the handler has created
    _element,       \* osm_xml: handler._element, 0 (None) or a dict of the heap
    elements,       \* osm_xml: handler.object["elements"], dicts of the heap
    file_log,       \* osm_xml: what _overpass_json_from_file did with the file
    sax_err,        \* osm_xml: the exception that escaped the parse (NoErr if none)
    pc              \* the position of the run

vars == <<G, doc, saves, filepath, graphml_str, graph_dtypes, node_dtypes,
          edge_dtypes, ret, err, steps, used, calls, parsed,
          all_edges_df, cols, nd, way_err, way_log, path,
          gdf_edges, xml_args, root,
          events, heap, _element, elements, file_log, sax_err, pc>>

iovars == <<G, doc, saves, filepath, graphml_str, graph_dtypes, node_dtypes,
            edge_dtypes, ret, err, steps, used, calls, parsed>>

wayvars == <<all_edges_df, cols, nd, way_err, way_log, path>>

xmlvars == <<gdf_edges, xml_args, root>>

saxvars == <<events, heap, _element, elements, file_log, sax_err>>

\* Python's None where a graph, a document, a map or a value is expected
None == [none |-> TRUE]
\* None where a file path or a name is expected
NoName == "None"
NoErr == [type |-> "NoErr", by |-> "None"]

-----------------------------------------------------------------------------
(* Bounds of the model. *)

\* the longest run of lexemes an arbitrary attribute text is built from
MaxTextLen == 3
\* the longest list a graph attribute of the caller holds
MaxListLen == 2
\* the most edges a caller's graph has
MaxEdges == 2
\* the largest parallel-edge key a caller's graph uses
MaxKey == 1
\* the most save_graphml calls of one run
MaxSaves == 2
\* the most edges one way has
MaxWayEdges == 3
\* the largest node id of a way
MaxWayNode == 3
\* the most rows an edge frame handed to the way-schema save has
MaxXmlEdges == 2
\* the most SAX events of a foreign file before only end tags follow
MaxEvents == 6

-----------------------------------------------------------------------------
(* Python values. *)

IntLexemes == <<"0", "1", "2">>
\* a float is held as its number of halves: 3 is 1.5
FloatLexemes == <<"0.0", "0.5", "1.0", "1.5", "2.0">>
Words == {"x", "true", "false"}

IsIntLex(l) == \E i \in DOMAIN IntLexemes : IntLexemes[i] = l
IsFloatLex(l) == \E i \in DOMAIN FloatLexemes : FloatLexemes[i] = l
IntOfLex(l) == (CHOOSE i \in DOMAIN IntLexemes : IntLexemes[i] = l) - 1
FloatOfLex(l) == (CHOOSE i \in DOMAIN FloatLexemes : FloatLexemes[i] = l) - 1

PyInt(n) == [t |-> "int", v |-> n]
PyFloat(h) == [t |-> "float", v |-> h]
PyBool(b) == [t |-> "bool", v |-> b]
PyStr(s) == [t |-> "str", v |-> s]
PyList(s) == [t |-> "list", v |-> s]
PyTuple(s) == [t |-> "tuple", v |-> s]
PySet(s) == [t |-> "set", v |-> s]
PyDict(s) == [t |-> "dict", v |-> s]

IsCollection(x) == x.t \in {"list", "tuple", "set", "dict"}

\* hash(x) succeeds
RECURSIVE Hashable(_)
Hashable(x) ==
    CASE x.t \in {"int", "float", "bool", "str"} -> TRUE
      [] x.t = "tuple" -> \A i \in DOMAIN x.v : Hashable(x.v[i])
      [] OTHER -> FALSE

\* the number of halves a number stands for
Halves(x) ==
    CASE x.t = "int" -> 2 * x.v
      [] x.t = "float" -> x.v
      [] x.t = "bool" -> IF x.v THEN 2 ELSE 0
      [] OTHER -> -1

\* a == b for two hashable scalars (True == 1 == 1.0)
PyEq(a, b) ==
    IF a.t = "str" \/ b.t = "str" THEN a.t = b.t /\ a.v = b.v
    ELSE IF IsCollection(a) \/ IsCollection(b) THEN FALSE
    ELSE Halves(a) = Halves(b)

\* the outcome of a call: a value, or the exception e raised by the callee `by`
Ok(x) == [k |-> "ok", v |-> x, by |-> NoName]
Raise(e, by) == [k |-> e, v |-> None, by |-> by]
Exc(r) == [type |-> r.k, by |-> r.by]

-----------------------------------------------------------------------------
(* str(value) and repr(value), as lexeme sequences. *)

RECURSIVE Repr(_), ReprSeq(_, _), ReprItems(_, _)

\* the members of a list, tuple or set, joined by commas
ReprSeq(s, i) ==
    IF i > Len(s) THEN <<>>
    ELSE Repr(s[i]) \o (IF i < Len(s) THEN <<", ">> ELSE <<>>) \o ReprSeq(s, i + 1)

\* the key: value pairs of a dict, joined by commas
ReprItems(s, i) ==
    IF i > Len(s) THEN <<>>
    ELSE Repr(s[i][1]) \o <<":">> \o Repr(s[i][2])
         \o (IF i < Len(s) THEN <<", ">> ELSE <<>>) \o ReprItems(s, i + 1)

Repr(x) ==
    CASE x.t = "int" -> <<IntLexemes[x.v + 1]>>
      [] x.t = "float" -> <<FloatLexemes[x.v + 1]>>
      [] x.t = "bool" -> IF x.v THEN <<"True">> ELSE <<"False">>
      [] x.t = "str" -> <<"'">> \o x.v \o <<"'">>
      [] x.t = "list" -> <<"[">> \o ReprSeq(x.v, 1) \o <<"]">>
      [] x.t = "tuple" -> <<"(">> \o ReprSeq(x.v, 1) \o <<")">>
      [] x.t = "set" -> <<"{">> \o ReprSeq(x.v, 1) \o <<"}">>
      [] x.t = "dict" -> <<"{">> \o ReprItems(x.v, 1) \o <<"}">>

\* str(x): a string is its own text, anything else its repr
Str(x) == IF x.t = "str" THEN x.v ELSE Repr(x)

-----------------------------------------------------------------------------
(* ast.literal_eval: the parse of a text into a syntax tree (SyntaxError  *)
(* when there is none), then the conversion of the tree to a value.        *)

Lex(s, i) == IF i \in DOMAIN s THEN s[i] ELSE "EOF"

Node(n, value, elts, vals) == [n |-> n, value |-> value, elts |-> elts, vals |-> vals]
Constant(v) == Node("Constant", v, <<>>, <<>>)
OkP(node, pos) == [ok |-> TRUE, node |-> node, pos |-> pos]
Fail == [ok |-> FALSE, node |-> None, pos |-> 0]

\* the index of the quote that closes the string opened at i, 0 if none
CloseQuote(s, i) ==
    IF \E j \in (i + 1)..Len(s) : s[j] = "'"
    THEN CHOOSE j \in (i + 1)..Len(s) :
             s[j] = "'" /\ \A m \in (i + 1)..(j - 1) : s[m] # "'"
    ELSE 0

RECURSIVE ParseString(_, _)
RECURSIVE ParseAtom(_, _)
RECURSIVE ParsePrimary(_, _)
RECURSIVE Trailers(_, _, _)
RECURSIVE ParseElts(_, _, _, _)
RECURSIVE ParsePairs(_, _, _, _)
RECURSIVE ParseSlices(_, _)

\* the text a string literal gave, joined to the literals r that follow it
Joined(text, r) == IF r.ok THEN OkP(text \o r.node, r.pos) ELSE Fail

\* the string literal opened at i and closed at j (0: never closed)
StringUpTo(s, i, j) ==
    IF j = 0 THEN Fail
    ELSE IF Lex(s, j + 1) = "'"
         THEN Joined(SubSeq(s, i + 1, j - 1), ParseString(s, j + 1))
         ELSE OkP(SubSeq(s, i + 1, j - 1), j + 1)

\* one or more adjacent string literals, which Python concatenates
ParseString(s, i) == StringUpTo(s, i, CloseQuote(s, i))

\* what follows the element e of a display: the close, or a comma and the rest
EltsAfter(s, close, acc, e) ==
    IF ~e.ok THEN Fail
    ELSE IF Lex(s, e.pos) = close THEN OkP(Append(acc, e.node), e.pos + 1)
    ELSE IF Lex(s, e.pos) = ", "
         THEN IF Lex(s, e.pos + 1) = close THEN OkP(Append(acc, e.node), e.pos + 2)
              ELSE ParseElts(s, e.pos + 1, close, Append(acc, e.node))
    ELSE Fail

\* expr ("," expr)* [","] close
ParseElts(s, i, close, acc) == EltsAfter(s, close, acc, ParsePrimary(s, i))

\* what follows the value v of a key: value pair
PairsAfterValue(s, keys, vals, v) ==
    IF ~v.ok THEN Fail
    ELSE IF Lex(s, v.pos) = "}"
         THEN OkP(Node("Dict", None, keys, Append(vals, v.node)), v.pos + 1)
    ELSE IF Lex(s, v.pos) = ", "
         THEN IF Lex(s, v.pos + 1) = "}"
              THEN OkP(Node("Dict", None, keys, Append(vals, v.node)), v.pos + 2)
              ELSE ParsePairs(s, v.pos + 1, keys, Append(vals, v.node))
    ELSE Fail

\* what follows the key k of a key: value pair
PairsAfterKey(s, keys, vals, k) ==
    IF ~k.ok \/ Lex(s, k.pos) # ":" THEN Fail
    ELSE PairsAfterValue(s, Append(keys, k.node), vals, ParsePrimary(s, k.pos + 1))

\* expr ":" expr ("," expr ":" expr)* [","] "}"
ParsePairs(s, i, keys, vals) == PairsAfterKey(s, keys, vals, ParsePrimary(s, i))

\* the optional expression after a slice's colon
AfterColon(s, p) ==
    IF Lex(s, p) \notin {":", ", ", "]", "EOF"} THEN ParsePrimary(s, p) ELSE OkP(None, p)

\* the end of one slice: the "]", or a comma and the next slice
SliceEnd(s, step) ==
    IF ~step.ok THEN Fail
    ELSE IF Lex(s, step.pos) = "]" THEN OkP(None, step.pos + 1)
    ELSE IF Lex(s, step.pos) = ", "
         THEN IF Lex(s, step.pos + 1) = "]" THEN OkP(None, step.pos + 2)
              ELSE ParseSlices(s, step.pos + 1)
    ELSE Fail

SliceUpper(s, upper) ==
    IF ~upper.ok THEN Fail
    ELSE IF Lex(s, upper.pos) = ":" THEN SliceEnd(s, AfterColon(s, upper.pos + 1))
    ELSE SliceEnd(s, upper)

SliceLower(s, lower) ==
    IF ~lower.ok THEN Fail
    ELSE IF Lex(s, lower.pos) = ":" THEN SliceUpper(s, AfterColon(s, lower.pos + 1))
    ELSE SliceEnd(s, lower)

\* the slices of a subscript, up to its "]": slice ("," slice)* [","] "]"
\* where slice is expr or [expr] ":" [expr] [":" [expr]]
ParseSlices(s, i) ==
    SliceLower(s, IF Lex(s, i) = ":" THEN OkP(None, i) ELSE ParsePrimary(s, i))

StringAtom(r) == IF r.ok THEN OkP(Constant(PyStr(r.node)), r.pos) ELSE Fail

\* a List, Set or Tuple node of the elements r
Display(kind, r) == IF r.ok THEN OkP(Node(kind, None, r.node, <<>>), r.pos) ELSE Fail

\* "{" then the expression k: a dict when a colon follows, else a set
Braces(s, i, k) ==
    IF ~k.ok THEN Fail
    ELSE IF Lex(s, k.pos) = ":" THEN ParsePairs(s, i + 1, <<>>, <<>>)
    ELSE Display("Set", ParseElts(s, i + 1, "}", <<>>))

AtomAt(s, i, l) ==
    CASE IsIntLex(l) -> OkP(Constant(PyInt(IntOfLex(l))), i + 1)
      [] IsFloatLex(l) -> OkP(Constant(PyFloat(FloatOfLex(l))), i + 1)
      [] l = "True" -> OkP(Constant(PyBool(TRUE)), i + 1)
      [] l = "False" -> OkP(Constant(PyBool(FALSE)), i + 1)
      [] l \in Words -> OkP(Node("Name", None, <<>>, <<>>), i + 1)
      [] l = "'" -> StringAtom(ParseString(s, i))
      [] l = "[" -> IF Lex(s, i + 1) = "]" THEN OkP(Node("List", None, <<>>, <<>>), i + 2)
                    ELSE Display("List", ParseElts(s, i + 1, "]", <<>>))
      [] l = "{" -> IF Lex(s, i + 1) = "}" THEN OkP(Node("Dict", None, <<>>, <<>>), i + 2)
                    ELSE Braces(s, i, ParsePrimary(s, i + 1))
      [] OTHER -> Fail

ParseAtom(s, i) == AtomAt(s, i, Lex(s, i))

TrailersAfter(s, r) ==
    IF r.ok THEN Trailers(s, r.pos, Node("Subscript", None, <<>>, <<>>)) ELSE Fail

\* the subscripts that follow an atom: atom "[" slices "]" ...
Trailers(s, p, node) ==
    IF Lex(s, p) = "[" THEN TrailersAfter(s, ParseSlices(s, p + 1)) ELSE OkP(node, p)

PrimaryAfter(s, a) == IF a.ok THEN Trailers(s, a.pos, a.node) ELSE Fail

ParsePrimary(s, i) == PrimaryAfter(s, ParseAtom(s, i))

\* what follows the first expression e of the text
TopAfter(s, e) ==
    IF ~e.ok THEN Fail
    ELSE IF e.pos = Len(s) + 1 THEN e
    ELSE IF Lex(s, e.pos) # ", " THEN Fail
    ELSE IF e.pos = Len(s) THEN OkP(Node("Tuple", None, <<e.node>>, <<>>), e.pos + 1)
    ELSE Display("Tuple", ParseElts(s, e.pos + 1, "EOF", <<e.node>>))

\* the whole text as one expression, or as a tuple of expressions
ParseTop(s) == TopAfter(s, ParsePrimary(s, 1))

RECURSIVE EvalNode(_)
RECURSIVE EvalElts(_, _, _, _)
RECURSIVE EvalPairs(_, _, _, _)

\* the member r joins the members acc; a set hashes each member as it is added
EltsWith(elts, i, acc, kind, r) ==
    IF r.k # "ok" THEN r
    ELSE IF kind # "set" THEN EvalElts(elts, i + 1, Append(acc, r.v), kind)
    ELSE IF ~Hashable(r.v) THEN Raise("TypeError", "literal_eval")
    ELSE IF \E j \in DOMAIN acc : PyEq(acc[j], r.v) THEN EvalElts(elts, i + 1, acc, kind)
    ELSE EvalElts(elts, i + 1, Append(acc, r.v), kind)

\* list(map(_convert, elts)), tuple(...), set(...): members left to right
EvalElts(elts, i, acc, kind) ==
    IF i > Len(elts) THEN Ok([t |-> kind, v |-> acc])
    ELSE EltsWith(elts, i, acc, kind, EvalNode(elts[i]))

\* the pair k: v joins the pairs acc; a key that is there keeps its place
PairsWith(keys, vals, i, acc, k, v) ==
    IF k.k # "ok" THEN k
    ELSE IF v.k # "ok" THEN v
    ELSE IF ~Hashable(k.v) THEN Raise("TypeError", "literal_eval")
    ELSE IF \E j \in DOMAIN acc : PyEq(acc[j][1], k.v)
         THEN EvalPairs(keys, vals, i + 1,
                  [j \in DOMAIN acc |->
                      IF PyEq(acc[j][1], k.v) THEN <<acc[j][1], v.v>> ELSE acc[j]])
         ELSE EvalPairs(keys, vals, i + 1, Append(acc, <<k.v, v.v>>))

\* dict(zip(map(_convert, keys), map(_convert, values)))
EvalPairs(keys, vals, i, acc) ==
    IF i > Len(keys) THEN Ok(PyDict(acc))
    ELSE PairsWith(keys, vals, i, acc, EvalNode(keys[i]), EvalNode(vals[i]))

\* ast.literal_eval's _convert: a name or a subscript is a malformed node
EvalNode(node) ==
    CASE node.n = "Constant" -> Ok(node.value)
      [] node.n = "List" -> EvalElts(node.elts, 1, <<>>, "list")
      [] node.n = "Tuple" -> EvalElts(node.elts, 1, <<>>, "tuple")
      [] node.n = "Set" -> EvalElts(node.elts, 1, <<>>, "set")
      [] node.n = "Dict" -> EvalPairs(node.elts, node.vals, 1, <<>>)
      [] OTHER -> Raise("ValueError", "literal_eval")

Converted(p) == IF p.ok THEN EvalNode(p.node) ELSE Raise("SyntaxError", "literal_eval")

literal_eval(s) == Converted(ParseTop(s))

-----------------------------------------------------------------------------
(* The dtypes of the registry: the Python types int, float and str, and    *)
(* _convert_bool_string.                                                   *)

Dtypes == {"int", "float", "str", "bool"}

\* int(x)
PyIntOf(x) ==
    CASE x.t = "str" -> IF Len(x.v) = 1 /\ IsIntLex(x.v[1])
                        THEN Ok(PyInt(IntOfLex(x.v[1])))
                        ELSE Raise("ValueError", "int")
      [] x.t = "int" -> Ok(x)
      [] x.t = "float" -> Ok(PyInt(x.v \div 2))
      [] x.t = "bool" -> Ok(PyInt(IF x.v THEN 1 ELSE 0))
      [] OTHER -> Raise("TypeError", "int")

\* float(x)
PyFloatOf(x) ==
    CASE x.t = "str" -> IF Len(x.v) = 1 /\ IsIntLex(x.v[1])
                        THEN Ok(PyFloat(2 * IntOfLex(x.v[1])))
                        ELSE IF Len(x.v) = 1 /\ IsFloatLex(x.v[1])
                        THEN Ok(PyFloat(FloatOfLex(x.v[1])))
                        ELSE Raise("ValueError", "float")
      [] x.t = "int" -> Ok(PyFloat(2 * x.v))
      [] x.t = "float" -> Ok(x)
      [] x.t = "bool" -> Ok(PyFloat(IF x.v THEN 2 ELSE 0))
      [] OTHER -> Raise("TypeError", "float")

\* `value in {"True", "False"}` hashes value; a set is looked up as a frozenset
InSetRaises(x) == x.t # "set" /\ ~Hashable(x)

\* bool(value): the truth value of whatever is passed
Truthy(value) ==
    Ok(PyBool(CASE value.t = "bool" -> value.v
                [] value.t \in {"int", "float"} -> value.v # 0
                [] OTHER -> value.v # <<>>))

_convert_bool_string(value) ==
    IF InSetRaises(value) THEN Raise("TypeError", "_convert_bool_string")
    ELSE IF value.t = "str" /\ value.v \in {<<"True">>, <<"False">>}
         THEN Ok(PyBool(value.v = <<"True">>))
    ELSE IF value.t = "bool" THEN Ok(value)
    ELSE Raise("ValueError", "_convert_bool_string")

\* dtypes[attr](value)
Apply(dtype, value) ==
    CASE dtype = "int" -> PyIntOf(value)
      [] dtype = "float" -> PyFloatOf(value)
      [] dtype = "bool" -> _convert_bool_string(value)
      [] dtype = "str" -> Ok(PyStr(Str(value)))

\* shapely's wkt.loads: a geometry from well-formed well-known text
WktLoads(value) ==
    IF value = PyStr(<<"LINESTRING">>) THEN Ok([t |-> "geometry", v |-> value.v])
    ELSE Raise("WKTReadingError", "wkt.loads")

-----------------------------------------------------------------------------
(* Attribute maps are functions name -> value.                             *)

EmptyMap == [a \in {} |-> None]
Put(m, a, x) == [b \in DOMAIN m \cup {a} |-> IF b = a THEN x ELSE m[b]]
Pop(m, a) == [b \in DOMAIN m \ {a} |-> m[b]]

\* a dict's keys in the order a loop visits them
RECURSIVE KeySeq(_)
KeySeq(S) ==
    IF S = {} THEN <<>>
    ELSE LET a == CHOOSE a \in S : TRUE IN <<a>> \o KeySeq(S \ {a})

\* value.startswith("[") and value.endswith("]") or the same with braces
BracketShaped(text) ==
    \/ Lex(text, 1) = "[" /\ Lex(text, Len(text)) = "]"
    \/ Lex(text, 1) = "{" /\ Lex(text, Len(text)) = "}"

-----------------------------------------------------------------------------
(* The attribute converters of load_graphml.  A conversion threads a       *)
(* record through its loops: the data converted so far, the dtype calls    *)
(* made, and the exception that ended it (NoErr while there is none).      *)

\* data[attr] = ast.literal_eval(value) under contextlib.suppress(SyntaxError,
\* ValueError): the literal's value is stored, a suppressed error leaves the
\* text, any other error ends the conversion
Evaluated(st, a, r) ==
    IF r.k = "ok" THEN [st EXCEPT !.data = Put(st.data, a, r.v)]
    ELSE IF r.k \in {"SyntaxError", "ValueError"} THEN st
    ELSE [st EXCEPT !.err = Exc(r)]

\* the loop `for attr, value in data.items()` that evaluates stringified
\* lists, dicts and sets
RECURSIVE EvalStringified(_, _, _)
EvalStringified(attrs, i, st) ==
    IF i > Len(attrs) \/ st.err # NoErr THEN st
    ELSE IF ~BracketShaped(st.data[attrs[i]].v) THEN EvalStringified(attrs, i + 1, st)
    ELSE EvalStringified(attrs, i + 1,
             Evaluated(st, attrs[i], literal_eval(st.data[attrs[i]].v)))

\* one call of a dtype, as the trace records it
Called(scope, a, x) == [scope |-> scope, attr |-> a, arg |-> x]

\* data[attr] = r, the outcome of the call that made the trace c
Coerced(st, a, c, r) ==
    IF r.k = "ok" THEN [st EXCEPT !.data = Put(st.data, a, r.v), !.calls = c]
    ELSE [st EXCEPT !.calls = c, !.err = Exc(r)]

\* data[attr] = dtypes[attr](data[attr]), for the attrs of a loop
RECURSIVE CoerceWhole(_, _, _, _, _)
CoerceWhole(scope, attrs, i, dtypes, st) ==
    IF i > Len(attrs) \/ st.err # NoErr THEN st
    ELSE CoerceWhole(scope, attrs, i + 1, dtypes,
             Coerced(st, attrs[i],
                     Append(st.calls, Called(scope, attrs[i], st.data[attrs[i]])),
                     Apply(dtypes[attrs[i]], st.data[attrs[i]])))

ItemConverted(acc, c, r) ==
    IF r.k = "ok" THEN [out |-> Append(acc.out, r.v), calls |-> c, err |-> NoErr]
    ELSE [out |-> acc.out, calls |-> c, err |-> Exc(r)]

\* [dtypes[attr](item) for item in data[attr]]
RECURSIVE ConvertItems(_, _, _, _, _, _)
ConvertItems(scope, a, dtype, items, i, acc) ==
    IF i > Len(items) \/ acc.err # NoErr THEN acc
    ELSE ConvertItems(scope, a, dtype, items, i + 1,
             ItemConverted(acc, Append(acc.calls, Called(scope, a, items[i])),
                           Apply(dtype, items[i])))

\* data[attr] = the list of the converted items
ListCoerced(st, a, each) ==
    IF each.err = NoErr
    THEN [st EXCEPT !.data = Put(st.data, a, PyList(each.out)), !.calls = each.calls]
    ELSE [st EXCEPT !.calls = each.calls, !.err = each.err]

\* an edge loop that converts every value as a whole
CoerceEdgeWhole(attrs, i, dtypes, st) == CoerceWhole("edge", attrs, i, dtypes, st)

\* the edge loop over data.keys() & dtypes.keys(): a list is converted item by
\* item, any other value as a whole
RECURSIVE CoerceEdge(_, _, _, _)
CoerceEdge(attrs, i, dtypes, st) ==
    IF i > Len(attrs) \/ st.err # NoErr THEN st
    ELSE IF st.data[attrs[i]].t = "list"
         THEN CoerceEdge(attrs, i + 1, dtypes,
                  ListCoerced(st, attrs[i],
                      ConvertItems("edge", attrs[i], dtypes[attrs[i]], st.data[attrs[i]].v, 1,
                                   [out |-> <<>>, calls |-> st.calls, err |-> NoErr])))
         ELSE CoerceEdge(attrs, i + 1, dtypes, CoerceWhole("edge", <<attrs[i]>>, 1, dtypes, st))

Start(data, log) == [data |-> data, calls |-> log, err |-> NoErr]

GraphCoerced(ev, dtypes) ==
    CoerceWhole("graph", KeySeq(DOMAIN ev.data \cap DOMAIN dtypes), 1, dtypes, ev)

\* a graph converter that evaluates stringified collections first, as the
\* node and edge converters do
ParsedGraphData(data, dtypes, log) ==
    GraphCoerced(EvalStringified(KeySeq(DOMAIN Pop(Pop(data, "node_default"), "edge_default")),
                                 1, Start(Pop(Pop(data, "node_default"), "edge_default"), log)),
                 dtypes)

\* _convert_graph_attr_types on the graph-level attributes
ConvertGraphData(data, dtypes, log) ==
    CoerceWhole("graph",
                KeySeq(DOMAIN Pop(Pop(data, "node_default"), "edge_default") \cap DOMAIN dtypes),
                1, dtypes, Start(Pop(Pop(data, "node_default"), "edge_default"), log))

\* the outcome co of a loop body, with the data ev its parse step left
WithParsed(ev, co) ==
    [data |-> co.data, calls |-> co.calls, err |-> co.err,
     parsed |-> IF ev.err = NoErr THEN <<ev.data>> ELSE <<>>]

NodeCoerced(ev, dtypes) ==
    WithParsed(ev, CoerceWhole("node", KeySeq(DOMAIN ev.data \cap DOMAIN dtypes), 1, dtypes, ev))

\* the body of _convert_node_attr_types' loop, on one node's data
ConvertNodeData(data, dtypes, log) ==
    NodeCoerced(EvalStringified(KeySeq(DOMAIN data), 1, Start(data, log)), dtypes)

WithGeometry(co, geo) ==
    [data |-> IF geo.k = "ok" /\ geo.v # None THEN Put(co.data, "geometry", geo.v) ELSE co.data,
     calls |-> co.calls,
     err |-> IF co.err # NoErr THEN co.err ELSE IF geo.k # "ok" THEN Exc(geo) ELSE NoErr]

\* if "geometry" in data: data["geometry"] = wkt.loads(data["geometry"])
EdgeGeometry(co) ==
    WithGeometry(co, IF co.err = NoErr /\ "geometry" \in DOMAIN co.data
                     THEN WktLoads(co.data["geometry"]) ELSE Ok(None))

EdgeCoerced(ev, dtypes) ==
    WithParsed(ev, EdgeGeometry(CoerceEdge(KeySeq(DOMAIN ev.data \cap DOMAIN dtypes), 1,
                                           dtypes, ev)))

\* the body of _convert_edge_attr_types' loop, on one edge's data
ConvertEdgeData(data, dtypes, log) ==
    EdgeCoerced(EvalStringified(KeySeq(DOMAIN Pop(data, "id")), 1,
                                Start(Pop(data, "id"), log)), dtypes)

ItemDone(st, item, r) ==
    [items |-> Append(st.items, [item EXCEPT !.d = r.data]),
     calls |-> r.calls, err |-> r.err, parsed |-> st.parsed \o r.parsed]

\* a converter's loop over the nodes (kind "node") or the edges (kind "edge"):
\* the first exception ends it
RECURSIVE ConvertEach(_, _, _, _, _)
ConvertEach(kind, items, i, dtypes, st) ==
    IF i > Len(items) \/ st.err # NoErr THEN st
    ELSE ConvertEach(kind, items, i + 1, dtypes,
             ItemDone(st, items[i],
                      IF kind = "node" THEN ConvertNodeData(items[i].d, dtypes, st.calls)
                      ELSE ConvertEdgeData(items[i].d, dtypes, st.calls)))

EachFrom(log) == [items |-> <<>>, calls |-> log, err |-> NoErr, parsed |-> <<>>]

GraphWith(g, r) == [g |-> [g EXCEPT !.graph = r.data], calls |-> r.calls, err |-> r.err]

NodesWith(g, r) ==
    [g |-> [g EXCEPT !.nodes = r.items], calls |-> r.calls, err |-> r.err, parsed |-> r.parsed]

EdgesWith(g, r) ==
    [g |-> [g EXCEPT !.edges = r.items], calls |-> r.calls, err |-> r.err, parsed |-> r.parsed]

_convert_graph_attr_types(g, dtypes, log) ==
    GraphWith(g, ConvertGraphData(g.graph, dtypes, log))

_convert_node_attr_types(g, dtypes, log) ==
    NodesWith(g, ConvertEach("node", g.nodes, 1, dtypes, EachFrom(log)))

_convert_edge_attr_types(g, dtypes, log) ==
    EdgesWith(g, ConvertEach("edge", g.edges, 1, dtypes, EachFrom(log)))

-----------------------------------------------------------------------------
(* save_graphml.  A graph is [graph |-> attribute map, nodes |-> sequence  *)
(* of [id, d], edges |-> sequence of [u, v, k, d]] in iteration order.     *)

\* G = G with no copy made: the function's graph is the caller's own object
SameObject(g) == [g |-> g, shared |-> TRUE]

\* G.copy(): new attribute dicts, so no dict is shared with the caller's graph
GraphCopy(g) == [g |-> g, shared |-> FALSE]

\* the nodes that add_edges_from creates, in the order the edges name them
RECURSIVE EndpointIds(_, _, _)
EndpointIds(edges, i, acc) ==
    IF i > Len(edges) THEN acc
    ELSE LET u == edges[i].u
             v == edges[i].v
             a1 == IF \E j \in DOMAIN acc : acc[j] = u THEN acc ELSE Append(acc, u)
             a2 == IF \E j \in DOMAIN a1 : a1[j] = v THEN a1 ELSE Append(a1, v)
         IN  EndpointIds(edges, i + 1, a2)

\* every edge keeps its old key
KeepKeys(g) ==
    LET ids == EndpointIds(g.edges, 1, <<>>) IN
    [g |-> [graph |-> EmptyMap,
            nodes |-> [i \in DOMAIN ids |-> [id |-> ids[i], d |-> EmptyMap]],
            edges |-> g.edges],
     shared |-> FALSE]

\* nx.MultiDiGraph(uvkd), uvkd = ((u, v, k, d) for k, (u, v, d) in enumerate(G.edges(...))):
\* a graph built from the edges alone, each edge's data copied into a new dict
UniqueKeyGraph(g) ==
    LET ids == EndpointIds(g.edges, 1, <<>>) IN
    [g |-> [graph |-> EmptyMap,
            nodes |-> [i \in DOMAIN ids |-> [id |-> ids[i], d |-> EmptyMap]],
            edges |-> [i \in DOMAIN g.edges |-> [g.edges[i] EXCEPT !.k = i - 1]]],
     shared |-> FALSE]

\* every value written as repr would show it, a string inside its quotes
ReprMap(m) == [a \in DOMAIN m |-> PyStr(Repr(m[a]))]

\* data[attr] = str(value) over one attribute dict
StrMap(m) == [a \in DOMAIN m |-> PyStr(Str(m[a]))]

\* the three loops that stringify the graph, node and edge attribute values
Stringify(g) ==
    [graph |-> StrMap(g.graph),
     nodes |-> [i \in DOMAIN g.nodes |-> [g.nodes[i] EXCEPT !.d = StrMap(g.nodes[i].d)]],
     edges |-> [i \in DOMAIN g.edges |-> [g.edges[i] EXCEPT !.d = StrMap(g.edges[i].d)]]]

\* nx.write_graphml: node ids are written as text, an edge's key as its id
WriteGraphml(g) ==
    [graph |-> g.graph,
     nodes |-> [i \in DOMAIN g.nodes |-> [id |-> Str(PyInt(g.nodes[i].id)), d |-> g.nodes[i].d]],
     edges |-> [i \in DOMAIN g.edges |->
                   [u |-> Str(PyInt(g.edges[i].u)), v |-> Str(PyInt(g.edges[i].v)),
                    k |-> g.edges[i].k, d |-> g.edges[i].d]]]

\* save_graphml(G, filepath, gephi): the graph that is stringified and written
WorkGraph(g, unique) == IF unique THEN UniqueKeyGraph(g) ELSE GraphCopy(g)

SaveGraphml(unique) ==
    /\ pc = "start"
    /\ G # None
    /\ Len(saves) < MaxSaves
    /\ LET work == WorkGraph(G, unique)
           out == Stringify(work.g)
       IN  /\ G' = IF work.shared THEN out ELSE G
           /\ doc' = WriteGraphml(out)
    /\ saves' = Append(saves, unique)
    /\ UNCHANGED <<filepath, graphml_str, graph_dtypes, node_dtypes, edge_dtypes,
                   ret, err, steps, used, calls, parsed, pc>>
    /\ UNCHANGED wayvars
    /\ UNCHANGED <<xmlvars, saxvars>>

-----------------------------------------------------------------------------
(* load_graphml. *)

default_graph_dtypes == ("simplified" :> "bool")

default_node_dtypes ==
    ("elevation" :> "float") @@ ("elevation_res" :> "float") @@ ("lat" :> "float")
    @@ ("lon" :> "float") @@ ("osmid" :> "int") @@ ("street_count" :> "int")
    @@ ("x" :> "float") @@ ("y" :> "float")

default_edge_dtypes ==
    ("bearing" :> "float") @@ ("grade" :> "float") @@ ("grade_abs" :> "float")
    @@ ("length" :> "float") @@ ("oneway" :> "bool") @@ ("osmid" :> "int")
    @@ ("reversed" :> "bool") @@ ("speed_kph" :> "float") @@ ("travel_time" :> "float")

\* an update in which a default survives a caller's override of the same name
UpdateKeepingDefaults(defaults, overrides) ==
    IF overrides = None THEN defaults ELSE defaults @@ overrides

\* default_x_dtypes.update(x_dtypes) when x_dtypes is not None
Update(defaults, overrides) ==
    IF overrides = None THEN defaults ELSE overrides @@ defaults

\* a check that rejects only the call that names no source
NoSource(fp, gstr) == fp = NoName /\ gstr = None

\* the condition of load_graphml's first statement
NotOneSource(fp, gstr) ==
    (fp = NoName /\ gstr = None) \/ (fp # NoName /\ gstr # None)

\* the reader's decode_data_elements: a data element without text sets no key
Present(d) == [a \in {b \in DOMAIN d : d[b].v # <<>>} |-> d[a]]

\* nx.read_graphml / nx.parse_graphml with node_type and force_multigraph: node
\* ids pass through node_type, the reader adds its node_default and edge_default
\* keys to the graph and the edge's id to the edge's data
read_graphml(src, node_type) ==
    LET ids == [i \in DOMAIN src.nodes |-> Apply(node_type, PyStr(src.nodes[i].id))]
        us == [i \in DOMAIN src.edges |-> Apply(node_type, PyStr(src.edges[i].u))]
        vs == [i \in DOMAIN src.edges |-> Apply(node_type, PyStr(src.edges[i].v))]
        bad == {i \in DOMAIN ids : ids[i].k # "ok"}
    IN  IF bad # {}
        THEN LET i == CHOOSE i \in bad : \A j \in bad : i <= j IN ids[i]
        ELSE Ok([graph |-> Put(Put(Present(src.graph), "node_default", PyDict(<<>>)),
                               "edge_default", PyDict(<<>>)),
                 nodes |-> [i \in DOMAIN src.nodes |-> [id |-> ids[i].v,
                                                          d |-> Present(src.nodes[i].d)]],
                 edges |-> [i \in DOMAIN src.edges |->
                               [u |-> us[i].v, v |-> vs[i].v, k |-> src.edges[i].k,
                                d |-> Put(Present(src.edges[i].d), "id",
                                          PyStr(Str(PyInt(src.edges[i].k))))]]])

Outcome(g, e, st, u, c, p) ==
    [ret |-> g, err |-> e, steps |-> st, used |-> u, calls |-> c, parsed |-> p]

NoParse == [node |-> <<>>, edge |-> <<>>]

\* the three default maps, each updated with the caller's map for its scope
Registry(gdt, ndt, edt) ==
    [graph |-> Update(default_graph_dtypes, gdt),
     node |-> Update(default_node_dtypes, ndt),
     edge |-> Update(default_edge_dtypes, edt)]

\* the read of the source, node_type being the node registry's osmid entry
Read(src, u) ==
    IF src = None THEN Raise("FileNotFoundError", "read_graphml")
    ELSE read_graphml(src, u.node["osmid"])

\* return G, unless the edge converter raised
AfterEdges(u, g2, g3) ==
    Outcome(IF g3.err # NoErr THEN None ELSE g3.g, g3.err,
            <<"read", "graph", "node", "edge">>, u, g3.calls,
            [node |-> g2.parsed, edge |-> g3.parsed])

AfterNodes(u, g2) ==
    IF g2.err # NoErr
    THEN Outcome(None, g2.err, <<"read", "graph", "node">>, u, g2.calls,
                 [node |-> g2.parsed, edge |-> <<>>])
    ELSE AfterEdges(u, g2, _convert_edge_attr_types(g2.g, u.edge, g2.calls))

AfterGraph(u, g1) ==
    IF g1.err # NoErr
    THEN Outcome(None, g1.err, <<"read", "graph">>, u, g1.calls, NoParse)
    ELSE AfterNodes(u, _convert_node_attr_types(g1.g, u.node, g1.calls))

AfterRead(u, rd) ==
    IF rd.k # "ok" THEN Outcome(None, Exc(rd), <<"read">>, u, <<>>, NoParse)
    ELSE AfterGraph(u, _convert_graph_attr_types(rd.v, u.graph, <<>>))

\* load_graphml past its argument check, with the registry u
LoadWith(u, src) == AfterRead(u, Read(src, u))

\* load_graphml(filepath, graphml_str, node_dtypes, edge_dtypes, graph_dtypes),
\* with `disk` the document at filepath (None when there is no such file)
load_graphml(fp, gstr, ndt, edt, gdt, disk) ==
    IF NotOneSource(fp, gstr)
    THEN Outcome(None, [type |-> "ValueError", by |-> "load_graphml"], <<>>, None, <<>>, NoParse)
    ELSE LoadWith(Registry(gdt, ndt, edt), IF fp # NoName THEN disk ELSE gstr)

LoadGraphml ==
    /\ pc = "start"
    /\ \E r \in {load_graphml(filepath, graphml_str, node_dtypes, edge_dtypes,
                              graph_dtypes, doc)} :
           /\ ret' = r.ret
           /\ err' = r.err
           /\ steps' = r.steps
           /\ used' = r.used
           /\ calls' = r.calls
           /\ parsed' = r.parsed
    /\ pc' = "done"
    /\ UNCHANGED <<G, doc, saves, filepath, graphml_str, graph_dtypes, node_dtypes,
                   edge_dtypes>>
    /\ UNCHANGED wayvars
    /\ UNCHANGED <<xmlvars, saxvars>>

-----------------------------------------------------------------------------
(* The graphs, documents and arguments of the runs. *)

EdgeData == ("osmid" :> PyInt(1)) @@ ("oneway" :> PyBool(FALSE)) @@ ("length" :> PyFloat(3))

\* a small street network as graph_from_* builds it
BaseGraph ==
    [graph |-> ("simplified" :> PyBool(TRUE)),
     nodes |-> << [id |-> 1, d |-> ("x" :> PyFloat(3)) @@ ("y" :> PyFloat(1))],
                  [id |-> 2, d |-> ("x" :> PyFloat(1)) @@ ("street_count" :> PyInt(2))] >>,
     edges |-> << [u |-> 1, v |-> 2, k |-> 0, d |-> EdgeData] >>]

BaseDoc == WriteGraphml(Stringify(BaseGraph))

\* g with attribute a set to x: at the graph, at node i or at edge i
WithAttr(g, scope, i, a, x) ==
    CASE scope = "graph" -> [g EXCEPT !.graph = Put(g.graph, a, x)]
      [] scope = "node" -> [g EXCEPT !.nodes[i].d = Put(g.nodes[i].d, a, x)]
      [] scope = "edge" -> [g EXCEPT !.edges[i].d = Put(g.edges[i].d, a, x)]

Scopes == {"graph", "node", "edge"}

\* where an attribute can sit in BaseGraph and BaseDoc
Places == {<<"graph", 1>>, <<"node", 1>>, <<"node", 2>>, <<"edge", 1>>}

SeqsUpTo(S, n) == UNION {[1..m -> S] : m \in 0..n}

\* the edge lists of the caller's graphs: distinct (u, v, key) triples
EdgeLists ==
    LET T == {1, 2} \X {1, 2} \X (0..MaxKey) IN
    {[i \in DOMAIN s |-> [u |-> s[i][1], v |-> s[i][2], k |-> s[i][3], d |-> EdgeData]] :
        s \in {s \in SeqsUpTo(T, MaxEdges) : \A i, j \in DOMAIN s : i # j => s[i] # s[j]}}

\* the values of a caller's attribute: scalars, and lists of scalars
ScalarValues ==
    {PyInt(1), PyFloat(3), PyBool(TRUE), PyBool(FALSE), PyStr(<<>>), PyStr(<<"x">>),
     PyStr(<<"True">>),
     PyStr(<<"[", "1", ", ", "2", "]">>), PyStr(<<"[", "1", ", ", "2">>),
     PyStr(<<"[", "x", "]">>), PyStr(<<"{", "[", "1", "]", "}">>),
     PyStr(<<"LINESTRING">>)}

ListItems == {PyInt(1), PyFloat(3), PyBool(TRUE), PyStr(<<"x">>)}

AttrValues == ScalarValues \cup {PyList(s) : s \in SeqsUpTo(ListItems, MaxListLen)}

\* the attribute names a run sets: names with a default dtype, and free names
FocusNames(scope) ==
    CASE scope = "graph" -> {"simplified", "tag", "edge_default"}
      [] scope = "node" -> {"x", "street_count", "tag", "osmid"}
      [] scope = "edge" -> {"oneway", "osmid", "length", "tag", "id", "geometry"}

\* a caller's override map for one scope
TagOverrides == {None} \cup {("tag" :> d) : d \in Dtypes}

\* the override maps tried with attribute a of a scope
FocusOverrides(scope, a) ==
    IF a = "tag" THEN TagOverrides
    ELSE IF scope = "node" /\ a = "osmid" THEN {None, "osmid" :> "str"}
    ELSE {None}

Dtype3(scope, ov) ==
    [graph |-> IF scope = "graph" THEN ov ELSE None,
     node |-> IF scope = "node" THEN ov ELSE None,
     edge |-> IF scope = "edge" THEN ov ELSE None]

\* the lexemes arbitrary attribute texts are built from
Alphabet == {"[", "]", "{", "}", ", ", "1", "True", "x"}

Runs == SeqsUpTo(Alphabet, MaxTextLen)

\* every run of lexemes, bare and inside a bracket pair, and some longer texts
Texts ==
    Runs \cup {<<"[">> \o r \o <<"]">> : r \in Runs} \cup {<<"{">> \o r \o <<"}">> : r \in Runs}
    \cup {<<"False">>, <<"true">>, <<"false">>, <<"0">>, <<"1.5">>,
          <<"[", "1", ", ", "2">>, <<"[", "True", ", ", "False", "]">>,
          <<"[", "'", "x", "'", ", ", "'", "x", "'", "]">>, <<"[", "'", "True", "'", "]">>,
          <<"{", "1", ":", "1", "}">>, <<"{", "1", ":", "[", "1", "]", "}">>,
          <<"{", "[", "1", "]", ":", "1", "}">>, <<"{", "'", "x", "'", ":", "True", "}">>}

\* no way-schema save has been asked for
InitXml ==
    /\ gdf_edges = <<>>
    /\ xml_args = None
    /\ root = <<>>

\* no foreign file is being read
InitSax ==
    /\ events = <<>>
    /\ heap = <<>>
    /\ _element = 0
    /\ elements = <<>>
    /\ file_log = <<>>
    /\ sax_err = NoErr

InitOsm ==
    /\ all_edges_df = <<>>
    /\ cols = {}
    /\ nd = <<>>
    /\ way_err = NoErr
    /\ way_log = <<>>
    /\ path = NoName
    /\ InitXml
    /\ InitSax

InitResult ==
    /\ ret = None
    /\ err = NoErr
    /\ steps = <<>>
    /\ used = None
    /\ calls = <<>>
    /\ parsed = NoParse
    /\ saves = <<>>
    /\ pc = "start"

\* a caller's graph is saved and loaded back from its file
InitRoundTrip ==
    /\ \/ /\ \E es \in EdgeLists : G = [BaseGraph EXCEPT !.edges = es]
          /\ graph_dtypes = None /\ node_dtypes = None /\ edge_dtypes = None
       \/ \E p \in Places : \E a \in FocusNames(p[1]) : \E x \in AttrValues :
              \E ov \in FocusOverrides(p[1], a) :
                  /\ G = WithAttr(BaseGraph, p[1], p[2], a, x)
                  /\ graph_dtypes = Dtype3(p[1], ov).graph
                  /\ node_dtypes = Dtype3(p[1], ov).node
                  /\ edge_dtypes = Dtype3(p[1], ov).edge
    /\ doc = None
    /\ filepath = "graph.graphml"
    /\ graphml_str = None
    /\ InitResult
    /\ InitOsm

NextRoundTrip ==
    \/ \E unique \in BOOLEAN : SaveGraphml(unique)
    \/ LoadGraphml

SpecRoundTrip == InitRoundTrip /\ [][NextRoundTrip]_vars

\* the attribute that holds the arbitrary text, and the override passed for it
LoadNames(scope) ==
    CASE scope = "graph" -> {"simplified", "tag"}
      [] scope = "node" -> {"x", "tag"}
      [] scope = "edge" -> {"oneway", "osmid", "tag"}

LoadOverrides(scope, a) ==
    IF a # "tag" THEN {None}
    ELSE IF scope = "node" THEN {None, "tag" :> "bool", "tag" :> "int"}
    ELSE {None}

\* a GraphML string with one attribute of arbitrary text is loaded
InitLoad ==
    /\ \E p \in Places \ {<<"node", 1>>} : \E a \in LoadNames(p[1]) :
           \E text \in Texts : \E ov \in LoadOverrides(p[1], a) :
              /\ graphml_str = WithAttr(BaseDoc, p[1], p[2], a, PyStr(text))
              /\ graph_dtypes = Dtype3(p[1], ov).graph
              /\ node_dtypes = Dtype3(p[1], ov).node
              /\ edge_dtypes = Dtype3(p[1], ov).edge
    /\ G = None
    /\ doc = None
    /\ filepath = NoName
    /\ InitResult
    /\ InitOsm

NextLoad == LoadGraphml

SpecLoad == InitLoad /\ [][NextLoad]_vars

\* the documents of the calls: every scope holds the attributes tag, osmid and
\* oneway with one text
CallDoc(text) ==
    LET m == ("tag" :> PyStr(text)) @@ ("osmid" :> PyStr(<<"1">>))
             @@ ("oneway" :> PyStr(<<"True">>)) IN
    [graph |-> m @@ BaseDoc.graph,
     nodes |-> [i \in DOMAIN BaseDoc.nodes |-> [BaseDoc.nodes[i] EXCEPT !.d = m @@ @]],
     edges |-> [i \in DOMAIN BaseDoc.edges |-> [BaseDoc.edges[i] EXCEPT !.d = m @@ @]]]

CallDocs == {CallDoc(<<"1">>), CallDoc(<<"True">>)}

\* the override maps a caller passes for a scope
CallOverrides ==
    {None, "tag" :> "int", "tag" :> "bool", "osmid" :> "float", "oneway" :> "str",
     ("tag" :> "float") @@ ("osmid" :> "str")}

\* load_graphml is called with any combination of its arguments
InitCall ==
    /\ filepath \in {NoName, "graph.graphml"}
    /\ graphml_str \in {None} \cup CallDocs
    /\ doc \in {None} \cup CallDocs
    /\ graph_dtypes \in CallOverrides
    /\ node_dtypes \in CallOverrides
    /\ edge_dtypes \in CallOverrides
    /\ G = None
    /\ InitResult
    /\ InitOsm

NextCall == LoadGraphml

SpecCall == InitCall /\ [][NextCall]_vars

-----------------------------------------------------------------------------
(* What the claims speak of. *)

\* the document load_graphml reads
Src == IF filepath # NoName THEN doc ELSE graphml_str

\* the attributes of a graph or document: <<scope, index, name>>
AttrsOf(g) ==
    {<<"graph", 1, a>> : a \in DOMAIN g.graph}
    \cup UNION {{<<"node", i, a>> : a \in DOMAIN g.nodes[i].d} : i \in DOMAIN g.nodes}
    \cup UNION {{<<"edge", i, a>> : a \in DOMAIN g.edges[i].d} : i \in DOMAIN g.edges}

ValOf(g, p) ==
    CASE p[1] = "graph" -> g.graph[p[3]]
      [] p[1] = "node" -> g.nodes[p[2]].d[p[3]]
      [] p[1] = "edge" -> g.edges[p[2]].d[p[3]]

HasAttr(g, p) == g # None /\ p \in AttrsOf(g)

\* the caller's override map and the built-in default map of a scope
OverrideOf(scope) ==
    CASE scope = "graph" -> graph_dtypes
      [] scope = "node" -> node_dtypes
      [] scope = "edge" -> edge_dtypes

DefaultOf(scope) ==
    CASE scope = "graph" -> default_graph_dtypes
      [] scope = "node" -> default_node_dtypes
      [] scope = "edge" -> default_edge_dtypes

\* the coercion the registry resolves a name to: NoName when there is none
Resolve(scope, a) ==
    IF OverrideOf(scope) # None /\ a \in DOMAIN OverrideOf(scope) THEN OverrideOf(scope)[a]
    ELSE IF a \in DOMAIN DefaultOf(scope) THEN DefaultOf(scope)[a]
    ELSE NoName

\* the attribute's value once the structural-parse step is over: the text itself
\* at graph level; None if the load ended before the step was over, or the
\* reader or the converter dropped the attribute
ParsedAt(ps, p) ==
    IF p[2] \in DOMAIN ps /\ p[3] \in DOMAIN ps[p[2]] THEN ps[p[2]][p[3]] ELSE None

AfterParse(p) ==
    CASE p[1] = "graph" -> ValOf(Src, p)
      [] p[1] = "node" -> ParsedAt(parsed.node, p)
      [] p[1] = "edge" -> ParsedAt(parsed.edge, p)

\* the arguments the dtype of attribute a of a scope was called with, in order
RECURSIVE ArgsOf(_, _, _)
ArgsOf(scope, a, i) ==
    IF i > Len(calls) THEN <<>>
    ELSE (IF calls[i].scope = scope /\ calls[i].attr = a THEN <<calls[i].arg>> ELSE <<>>)
         \o ArgsOf(scope, a, i + 1)

Last(s) == s[Len(s)]
BoolError == [type |-> "ValueError", by |-> "_convert_bool_string"]

-----------------------------------------------------------------------------
(* Claims about load_graphml's arguments. *)

BothOrNeither == (filepath = NoName) <=> (graphml_str = None)

\* C2: load_graphml takes exactly one of filepath and graphml_str; with both or
\* with neither it raises ValueError before anything is read or converted, and
\* with exactly one it never raises that error.
C2_ExactlyOneSource ==
    pc = "done" =>
        /\ BothOrNeither =>
               /\ err = [type |-> "ValueError", by |-> "load_graphml"]
               /\ steps = <<>> /\ calls = <<>> /\ used = None /\ ret = None
        /\ ~BothOrNeither => err.by # "load_graphml" /\ steps # <<>>

\* both sources are given and the call has been rejected with nothing read
C2_Witness ==
    /\ pc = "done"
    /\ filepath # NoName /\ graphml_str # None /\ doc # None
    /\ err.type = "ValueError" /\ steps = <<>>

RegistryNames ==
    UNION {DOMAIN DefaultOf(s) : s \in Scopes}
    \cup UNION {IF OverrideOf(s) = None THEN {} ELSE DOMAIN OverrideOf(s) : s \in Scopes}

\* the registry the load worked with holds, per scope, the caller's entry for a
\* name, else the default's, else nothing
RegistryResolved ==
    used # None =>
        \A s \in Scopes : \A a \in RegistryNames :
            IF Resolve(s, a) = NoName THEN a \notin DOMAIN used[s]
            ELSE a \in DOMAIN used[s] /\ used[s][a] = Resolve(s, a)

\* a loaded scalar attribute is the text under its scope's resolved coercion,
\* and the text itself when the scope resolves the name to nothing
LoadedAsResolved ==
    (pc = "done" /\ err = NoErr) =>
        \A p \in AttrsOf(Src) :
            LET d == Resolve(p[1], p[3]) IN
            IF d = NoName THEN ValOf(ret, p) = ValOf(Src, p)
            ELSE ValOf(ret, p) = Apply(d, ValOf(Src, p)).v

\* C6: each scope's registry is its defaults with the caller's overrides for
\* that scope laid on top: an override wins over a default of the same name,
\* touches no other scope, and the caller's maps are left as they were passed.
C6_RegistryResolution ==
    [][/\ graph_dtypes' = graph_dtypes
       /\ node_dtypes' = node_dtypes
       /\ edge_dtypes' = edge_dtypes
       /\ RegistryResolved'
       /\ LoadedAsResolved']_vars

\* the node scope overrides osmid and tag, the edge scope nothing: the load
\* succeeded with osmid a string at the nodes and an integer at the edges
C6_Witness ==
    /\ pc = "done" /\ err = NoErr
    /\ node_dtypes = ("tag" :> "float") @@ ("osmid" :> "str")
    /\ edge_dtypes = None
    /\ ValOf(ret, <<"node", 1, "osmid">>) = PyStr(<<"1">>)
    /\ ValOf(ret, <<"edge", 1, "osmid">>) = PyInt(1)
    /\ ValOf(ret, <<"node", 1, "tag">>) = PyFloat(2)
    /\ ValOf(ret, <<"edge", 1, "tag">>) = PyStr(<<"1">>)

-----------------------------------------------------------------------------
(* Claims about save_graphml. *)

\* C7: save_graphml never changes the caller's graph, in the default mode or in
\* the gephi mode: every value of the graph is after the save what it was before.
C7_CallerGraphUntouched == [][G' = G]_vars

\* a graph with a list-valued attribute has been saved in each of the two modes
C7_Witness ==
    /\ Len(saves) = 2 /\ saves[1] # saves[2]
    /\ \E p \in AttrsOf(G) : ValOf(G, p).t = "list" /\ ValOf(G, p).v # <<>>
    /\ \E p \in AttrsOf(G) : ValOf(G, p).t = "bool"

\* C8: the document the gephi mode writes has the caller's edges in their order,
\* each keyed by its position, so the keys are exactly 0..n-1 and pairwise
\* distinct; the same holds when the mode is applied to the graph a second time.
C8_GephiKeys ==
    (saves # <<>> /\ Last(saves)) =>
        /\ Len(doc.edges) = Len(G.edges)
        /\ {doc.edges[i].k : i \in DOMAIN doc.edges} = 0..(Len(G.edges) - 1)
        /\ \A i, j \in DOMAIN doc.edges : i # j => doc.edges[i].k # doc.edges[j].k
        /\ \A i \in DOMAIN doc.edges :
               /\ doc.edges[i].k = i - 1
               /\ doc.edges[i].u = Str(PyInt(G.edges[i].u))
               /\ doc.edges[i].v = Str(PyInt(G.edges[i].v))

\* a graph whose two edges both carry key 1 has been saved twice in gephi mode
C8_Witness ==
    /\ saves = <<TRUE, TRUE>>
    /\ Len(G.edges) = 2
    /\ G.edges[1].k = 1 /\ G.edges[2].k = 1
    /\ doc.edges[2].k = 1

-----------------------------------------------------------------------------
(* Claims about the round trip. *)

\* the loaded graph is the caller's graph: same graph attributes, same nodes
\* with the same data, same edges with the same keys and data
RoundTripEqual ==
    /\ ret # None
    /\ ret.graph = G.graph
    /\ Len(ret.nodes) = Len(G.nodes)
    /\ \A i \in DOMAIN G.nodes :
           ret.nodes[i].id = PyInt(G.nodes[i].id) /\ ret.nodes[i].d = G.nodes[i].d
    /\ Len(ret.edges) = Len(G.edges)
    /\ \A i \in DOMAIN G.edges :
           /\ ret.edges[i].u = PyInt(G.edges[i].u) /\ ret.edges[i].v = PyInt(G.edges[i].v)
           /\ ret.edges[i].k = G.edges[i].k /\ ret.edges[i].d = G.edges[i].d

\* a scalar whose type is the one the registry names for it; a string may also
\* go unregistered
TypedScalar(x, d) ==
    CASE x.t = "str" -> d \in {NoName, "str"}
      [] x.t = "int" -> d = "int"
      [] x.t = "float" -> d = "float"
      [] x.t = "bool" -> d = "bool"
      [] OTHER -> FALSE

Homogeneous(x) == \A i, j \in DOMAIN x.v : x.v[i].t = x.v[j].t

\* a scalar or a flat homogeneous list, typed under the registry
TypedValue(x, d) ==
    IF x.t = "list"
    THEN Homogeneous(x) /\ (d = NoName \/ \A i \in DOMAIN x.v : TypedScalar(x.v[i], d))
    ELSE TypedScalar(x, d)

SavedThenLoaded == pc = "done" /\ saves # <<>> /\ ~Last(saves)

\* the round trip as an identity on every graph of typed scalars and flat
\* homogeneous lists
C1_AsStated ==
    (SavedThenLoaded /\ \A p \in AttrsOf(G) : TypedValue(ValOf(G, p), Resolve(p[1], p[3])))
        => err = NoErr /\ RoundTripEqual

\* names the load takes for its own: the reader's graph keys, the edge's id
\* and the edge's geometry
ReservedName(scope, a) ==
    \/ scope = "graph" /\ a \in {"node_default", "edge_default"}
    \/ scope = "edge" /\ a \in {"id", "geometry"}

\* a string the node and edge converters leave a string
StaysText(scope, x) ==
    \/ scope = "graph"
    \/ ~BracketShaped(x.v)
    \/ literal_eval(x.v).k \in {"SyntaxError", "ValueError"}

\* an attribute the round trip gives back as it was
Survives(scope, a, x, d) ==
    /\ ~ReservedName(scope, a)
    /\ CASE x.t = "list" ->
                \/ scope = "edge" /\ (d = NoName \/ \A i \in DOMAIN x.v : TypedScalar(x.v[i], d))
                \/ scope = "node" /\ d = NoName
         [] x.t = "str" -> d \in {NoName, "str"} /\ x.v # <<>> /\ StaysText(scope, x)
         [] OTHER -> TypedScalar(x, d)

\* C1: load_graphml(save_graphml(G)) gives G back when node ids are integers
\* read as integers, no attribute has a reserved name, every int, float and bool
\* has its own type registered, every string is non-empty, registered as str or
\* not at all and left as text by the structural parse, and every list sits on
\* an edge (unregistered, or registered with its members' type) or on a node
\* (unregistered).
C1_RoundTrip ==
    (/\ SavedThenLoaded
     /\ Resolve("node", "osmid") = "int"
     /\ \A p \in AttrsOf(G) : Survives(p[1], p[3], ValOf(G, p), Resolve(p[1], p[3])))
        => err = NoErr /\ RoundTripEqual

\* an edge with a registered list of integers has come back from the file
C1_Witness ==
    /\ SavedThenLoaded /\ err = NoErr /\ RoundTripEqual
    /\ HasAttr(G, <<"edge", 1, "osmid">>)
    /\ ValOf(G, <<"edge", 1, "osmid">>) = PyList(<<PyInt(1), PyInt(1)>>)
    /\ ValOf(Src, <<"edge", 1, "osmid">>) = PyStr(<<"[", "1", ", ", "1", "]">>)

-----------------------------------------------------------------------------
(* Claims about the converters. *)

BoolTexts == {<<"True">>, <<"False">>}

\* the load ended in the call that is last in the trace
FailedAt(k) == k = Len(calls) /\ err # NoErr

\* the coercion loop of p's node or edge got as far as attribute p
Reached(p) ==
    \/ err = NoErr
    \/ calls # <<>> /\ Last(calls).scope = p[1] /\ Last(calls).attr = p[3]

\* the bool coercion called with a string: "True" and "False" pass, any other
\* string ends the load with ValueError
BoolCallsStrict ==
    \A k \in DOMAIN calls :
        (used[calls[k].scope][calls[k].attr] = "bool" /\ calls[k].arg.t = "str") =>
            IF calls[k].arg.v \in BoolTexts THEN ~FailedAt(k)
            ELSE FailedAt(k) /\ err = BoolError /\ ret = None

\* what a loaded graph holds for the texts "True" and "False" under bool
BoolTextsLoaded ==
    err = NoErr =>
        \A p \in AttrsOf(Src) :
            (Resolve(p[1], p[3]) = "bool" /\ ValOf(Src, p).v \in BoolTexts) =>
                ValOf(ret, p) = PyBool(ValOf(Src, p).v = <<"True">>)

\* the load as the claim words it: under bool, any text other than "True" and
\* "False" ends the load with ValueError
C3_AsStated ==
    pc = "done" =>
        /\ BoolTextsLoaded
        /\ \A p \in AttrsOf(Src) :
               (Resolve(p[1], p[3]) = "bool" /\ ValOf(Src, p).v \notin BoolTexts) =>
                   err = BoolError /\ ret = None

\* C3: _convert_bool_string maps "True" to true and "False" to false and raises
\* ValueError for every other string; a load aborts on a non-empty text under
\* bool other than those two when the structural parse leaves the text a string
\* (always at graph level; at node and edge level unless the text is bracketed
\* and parses).
C3_BoolStrict ==
    pc = "done" =>
        /\ BoolCallsStrict
        /\ BoolTextsLoaded
        /\ \A p \in AttrsOf(Src) :
               (/\ Resolve(p[1], p[3]) = "bool"
                /\ ValOf(Src, p).v \notin BoolTexts \cup {<<>>}
                /\ AfterParse(p) = ValOf(Src, p)
                /\ Reached(p)) => err = BoolError /\ ret = None

\* an edge's oneway is a bracketed text that does not parse: the load aborted
C3_Witness ==
    /\ pc = "done"
    /\ HasAttr(Src, <<"edge", 1, "oneway">>)
    /\ ValOf(Src, <<"edge", 1, "oneway">>) = PyStr(<<"[", "x", "]">>)
    /\ AfterParse(<<"edge", 1, "oneway">>) = PyStr(<<"[", "x", "]">>)
    /\ err = BoolError /\ ret = None

\* C4: the structural parse of a node's or an edge's text never raises: a text
\* that does not parse is kept as the identical string, "[1, 2" included.
C4_AsStated ==
    pc = "done" =>
        /\ err.by # "literal_eval"
        /\ \A p \in AttrsOf(Src) :
               (/\ p[1] # "graph"
                /\ ValOf(Src, p).v # <<>>
                /\ AfterParse(p) # None
                /\ ~BracketShaped(ValOf(Src, p).v) \/ literal_eval(ValOf(Src, p).v).k # "ok")
                   => AfterParse(p) = ValOf(Src, p)

\* the load as the claim words it: a registered attribute that parsed to a
\* list, a set or a mapping is never coerced as a whole, a list's and a set's
\* members are
C5_AsStated ==
    pc = "done" =>
        \A p \in AttrsOf(Src) :
            LET c == AfterParse(p) IN
            (/\ Resolve(p[1], p[3]) # NoName
             /\ c # None /\ c.t \in {"list", "set", "dict"}
             /\ Reached(p)) =>
                /\ \A k \in DOMAIN calls :
                       calls[k] # [scope |-> p[1], attr |-> p[3], arg |-> c]
                /\ (err = NoErr /\ c.t # "dict") =>
                       \A m \in DOMAIN c.v : \E k \in DOMAIN calls :
                           calls[k] = [scope |-> p[1], attr |-> p[3], arg |-> c.v[m]]

\* C5: a registered edge attribute that parsed to a list is coerced member by
\* member into a list of the same length; any other parsed collection on an
\* edge, and every parsed collection on a node, is passed to the coercion as a
\* whole; a graph-level value is never parsed and is coerced as text.
C5_ElementWise ==
    pc = "done" =>
        /\ \A k \in DOMAIN calls : calls[k].scope = "graph" => calls[k].arg.t = "str"
        /\ \A p \in AttrsOf(Src) :
               LET c == AfterParse(p)
                   d == Resolve(p[1], p[3])
                   whole == [scope |-> p[1], attr |-> p[3], arg |-> c]
               IN  (d # NoName /\ c # None /\ IsCollection(c) /\ Reached(p)) =>
                       IF p[1] = "edge" /\ c.t = "list"
                       THEN /\ \A k \in DOMAIN calls : calls[k] # whole
                            /\ err = NoErr =>
                                   /\ ValOf(ret, p) = PyList([m \in DOMAIN c.v |->
                                                                Apply(d, c.v[m]).v])
                                   /\ \A m \in DOMAIN c.v : \E k \in DOMAIN calls :
                                          calls[k] = [whole EXCEPT !.arg = c.v[m]]
                       ELSE \E k \in DOMAIN calls : calls[k] = whole

\* an edge's osmid text "[1, 1]" has been loaded as the list of two integers
C5_Witness ==
    /\ pc = "done" /\ err = NoErr
    /\ HasAttr(Src, <<"edge", 1, "osmid">>)
    /\ ValOf(Src, <<"edge", 1, "osmid">>) = PyStr(<<"[", "1", ", ", "1", "]">>)
    /\ ValOf(ret, <<"edge", 1, "osmid">>) = PyList(<<PyInt(1), PyInt(1)>>)
    /\ ArgsOf("edge", "osmid", 1) = <<PyInt(1), PyInt(1)>>

-----------------------------------------------------------------------------
(* The way writer of osm_xml.py: the node order of one way's edges. *)

\* pandas' DataFrame.reset_index(inplace=True) on a frame with an unnamed index:
\* the index becomes column "index", or "level_0" when there is an "index"
\* column, and the insert is refused when that column exists too
reset_index(columns) ==
    IF "index" \notin columns THEN Ok(columns \cup {"index"})
    ELSE IF "level_0" \notin columns THEN Ok(columns \cup {"level_0"})
    ELSE Raise("ValueError", "reset_index")

\* the origins alone
Origins(rows) == {rows[i].u : i \in DOMAIN rows}

\* all_nodes of the scratch graph: every u and every v of the way's rows
all_nodes(rows) == {rows[i].u : i \in DOMAIN rows} \cup {rows[i].v : i \in DOMAIN rows}

Neighbours(rows, S) ==
    S \cup {rows[i].v : i \in {j \in DOMAIN rows : rows[j].u \in S}}
      \cup {rows[i].u : i \in {j \in DOMAIN rows : rows[j].v \in S}}

\* the nodes joined to S when edge direction is ignored
RECURSIVE WeakComponent(_, _)
WeakComponent(rows, S) ==
    IF Neighbours(rows, S) = S THEN S ELSE WeakComponent(rows, Neighbours(rows, S))

weakly_connected_components(rows) == {WeakComponent(rows, {n}) : n \in all_nodes(rows)}

\* utils_graph.get_largest_component(G, strongly=False): a weakly connected
\* component no other is larger than; between equals the choice is open
get_largest_component(rows) ==
    {C \in weakly_connected_components(rows) :
        \A D \in weakly_connected_components(rows) : Cardinality(D) <= Cardinality(C)}

Orderings(C) ==
    {o \in [1..Cardinality(C) -> C] : \A i, j \in 1..Cardinality(C) : i # j => o[i] # o[j]}

Position(o, n) == CHOOSE i \in DOMAIN o : o[i] = n

\* H's nodes in any order
AnyOrder(C, rows) == {Ok(o) : o \in Orderings(C)}

\* nx.topological_sort(H): an order of H's nodes in which every edge of H runs
\* forward; NetworkXUnfeasible when H has a directed cycle (a self-loop is one)
topological_sort(C, rows) ==
    LET edges == {i \in DOMAIN rows : rows[i].u \in C}
        sorted == {o \in Orderings(C) :
                     \A i \in edges : Position(o, rows[i].u) < Position(o, rows[i].v)}
    IN  IF sorted = {} THEN {Raise("NetworkXUnfeasible", "topological_sort")}
        ELSE {Ok(o) : o \in sorted}

\* _get_unique_nodes_ordered_from_way(df_way_edges) on a frame with the rows and
\* the columns given: its possible outcomes, each with the frame's columns
\* after the call and what the call logged
_get_unique_nodes_ordered_from_way(rows, columns) ==
    LET re == reset_index(columns) IN
    IF re.k # "ok" THEN {[out |-> re, columns |-> columns, log |-> <<>>]}
    ELSE {[out |-> r, columns |-> re.v,
           log |-> IF r.k = "ok" /\ Len(r.v) < Cardinality(all_nodes(rows))
                   THEN << <<Len(r.v), Cardinality(all_nodes(rows))>> >> ELSE <<>>] :
            r \in UNION {topological_sort(H, rows) : H \in get_largest_component(rows)}}

\* an order that loses the node the fallback took off
WithoutFirst(first_node, ordered_nodes) == ordered_nodes

\* [first_node] + ordered_nodes
WithFirst(first_node, ordered_nodes) == <<first_node>> \o ordered_nodes

\* all_edges_df.iloc[1:]
Remaining(rows) == Tail(rows)

\* the except branch: the first row's origin, then the order of the rows left
Fallback(rows, columns, o2) ==
    [nd |-> IF o2.out.k = "ok" THEN WithFirst(rows[1].u, o2.out.v) ELSE <<>>,
     path |-> "fallback",
     err |-> IF o2.out.k = "ok" THEN NoErr ELSE Exc(o2.out),
     log |-> o2.log, columns |-> columns]

\* the try statement, o1 being an outcome of its body
AfterSort(rows, o1) ==
    IF o1.out.k = "ok"
    THEN {[nd |-> o1.out.v, path |-> "sorted", err |-> NoErr, log |-> o1.log,
           columns |-> o1.columns]}
    ELSE IF o1.out.k # "NetworkXUnfeasible"
    THEN {[nd |-> <<>>, path |-> "sorted", err |-> Exc(o1.out), log |-> <<>>,
           columns |-> o1.columns]}
    ELSE {Fallback(rows, o1.columns, o2) :
            o2 \in _get_unique_nodes_ordered_from_way(Remaining(rows), o1.columns)}

\* _append_nodes_as_edge_attrs on a group with the rows and the columns given:
\* its possible outcomes, each with the nd refs appended, the branch taken, the
\* exception that escaped, what was logged and the columns left on the group
NodeRefs(rows, columns) ==
    IF Len(rows) = 1
    THEN {[nd |-> <<rows[1].u, rows[1].v>>, path |-> "single", err |-> NoErr, log |-> <<>>,
           columns |-> columns]}
    ELSE UNION {AfterSort(rows, o1) :
                  o1 \in _get_unique_nodes_ordered_from_way(rows, columns)}

\* _append_nodes_as_edge_attrs(xml_edge, sample_edge, all_edges_df)
AppendNodesAsEdgeAttrs ==
    /\ pc = "start"
    /\ all_edges_df # <<>>
    /\ \E o \in NodeRefs(all_edges_df, cols) :
           /\ nd' = o.nd
           /\ path' = o.path
           /\ way_err' = o.err
           /\ way_log' = o.log
           /\ cols' = o.columns
    /\ pc' = "done"
    /\ UNCHANGED all_edges_df
    /\ UNCHANGED iovars
    /\ UNCHANGED <<xmlvars, saxvars>>

WayRows ==
    LET Row == {[u |-> a, v |-> b] : a, b \in 1..MaxWayNode} IN
    UNION {[1..n -> Row] : n \in 1..MaxWayEdges}

\* the rows in every order
Shuffles(rows) == {[i \in DOMAIN rows |-> rows[o[i]]] : o \in Orderings(DOMAIN rows)}

\* the chain (1,2),(2,3),(3,4)
Chain == << [u |-> 1, v |-> 2], [u |-> 2, v |-> 3], [u |-> 3, v |-> 4] >>

\* the way (1,2),(2,3),(10,11), whose edges do not all connect
Disconnected == << [u |-> 1, v |-> 2], [u |-> 2, v |-> 3], [u |-> 10, v |-> 11] >>

\* the documented example ways: the chain in every row order and the
\* disconnected way
ExampleWays == Shuffles(Chain) \cup {Disconnected}

\* one way's group of rows, out of a frame whose index was the (u, v, key) of
\* graph_to_gdfs (no "index" column) or a plain row number
InitWay ==
    /\ all_edges_df \in WayRows \cup ExampleWays
    /\ cols \in {{}, {"index"}}
    /\ nd = <<>>
    /\ way_err = NoErr
    /\ way_log = <<>>
    /\ path = NoName
    /\ InitXml
    /\ InitSax
    /\ G = None /\ doc = None /\ filepath = NoName /\ graphml_str = None
    /\ graph_dtypes = None /\ node_dtypes = None /\ edge_dtypes = None
    /\ InitResult

NextWay == AppendNodesAsEdgeAttrs

SpecWay == InitWay /\ [][NextWay]_vars

-----------------------------------------------------------------------------
(* Claims about the way writer. *)

Loop == << [u |-> 1, v |-> 2], [u |-> 2, v |-> 3], [u |-> 3, v |-> 1] >>

\* the way (1,2),(2,3),(3,1) as the claim words it: the fallback gives an
\* order of length 3 that starts at node 1 and names each node once
C9_AsStated ==
    [][(pc = "start" /\ all_edges_df = Loop /\ cols = {}) =>
          /\ path' = "fallback" /\ way_err' = NoErr
          /\ Len(nd') = 3 /\ nd'[1] = 1
          /\ \A i, j \in DOMAIN nd' : i # j => nd'[i] # nd'[j]]_vars

\* C9: for the way edges (1,2),(2,3),(3,1), in a frame that came with the
\* (u, v, key) index, _append_nodes_as_edge_attrs takes the cycle fallback
\* without failing and emits 1, 2, 3, 1: four refs, node 1 first and last.
C9_LoopOrder ==
    [][(pc = "start" /\ all_edges_df = Loop /\ cols = {}) =>
          /\ path' = "fallback" /\ way_err' = NoErr
          /\ nd' = <<1, 2, 3, 1>>]_vars

\* the loop has been written through the fallback
C9_Witness ==
    /\ pc = "done" /\ all_edges_df = Loop
    /\ path = "fallback" /\ way_err = NoErr
    /\ nd = <<1, 2, 3, 1>> /\ "level_0" \notin cols

\* the largest weakly connected component of the rows has a directed cycle
CyclicWay(rows) ==
    \A H \in get_largest_component(rows) :
        \A r \in topological_sort(H, rows) : r.k = "NetworkXUnfeasible"

\* C10: for every way of two or more edges whose largest weakly connected
\* component has a directed cycle, node-order recovery ends with a node
\* sequence and no NetworkXUnfeasible escapes.
C10_AsStated ==
    [][(pc = "start" /\ Len(all_edges_df) >= 2 /\ CyclicWay(all_edges_df) /\ cols = {}) =>
          way_err' = NoErr /\ nd' # <<>>]_vars

\* the way (1,2),(2,3),(10,11) as the claim words it: the order 1, 2, 3 and a
\* log of 3 of 4 nodes
C11_AsStated ==
    [][(pc = "start" /\ all_edges_df = Disconnected) =>
          /\ path' = "sorted" /\ way_err' = NoErr
          /\ nd' = <<1, 2, 3>>
          /\ way_log' = << <<3, 4>> >>]_vars

\* C11: for the way edges (1,2),(2,3),(10,11), _get_unique_nodes_ordered_from_way
\* returns 1, 2, 3 (the largest weakly connected component), does not fail,
\* and logs that the order of 3 of the 5 unique nodes was recovered.
C11_Disconnected ==
    [][(pc = "start" /\ all_edges_df = Disconnected) =>
          /\ path' = "sorted" /\ way_err' = NoErr
          /\ nd' = <<1, 2, 3>>
          /\ way_log' = << <<3, 5>> >>]_vars

\* the disconnected way has been ordered and the loss of two nodes logged
C11_Witness ==
    /\ pc = "done" /\ all_edges_df = Disconnected
    /\ path = "sorted" /\ way_err = NoErr
    /\ nd = <<1, 2, 3>> /\ way_log = << <<3, 5>> >>

\* the node orders n1, ..., nk of which the rows are the steps (n1,n2), ...,
\* (nk-1,nk), each once: one order when the rows form a simple directed path,
\* none otherwise
PathOrders(rows) ==
    IF Cardinality(all_nodes(rows)) # Len(rows) + 1 THEN {}
    ELSE {o \in Orderings(all_nodes(rows)) :
            {<<rows[i].u, rows[i].v>> : i \in DOMAIN rows}
                = {<<o[i], o[i + 1]>> : i \in 1..Len(rows)}}

\* C12: for every way whose edges form a simple directed path n1 -> ... -> nk
\* (k >= 2), in any row order, the nd refs written are exactly n1, ..., nk and
\* nothing is raised; a single edge (u,v) gives u, v.
C12_ChainOrder ==
    [][(pc = "start" /\ all_edges_df # <<>>) =>
          \A o \in PathOrders(all_edges_df) :
              /\ nd' = o /\ way_err' = NoErr
              /\ path' = IF Len(all_edges_df) = 1 THEN "single" ELSE "sorted"]_vars

\* the chain, given as (3,4),(1,2),(2,3), has been written as 1, 2, 3, 4
C12_Witness ==
    /\ pc = "done"
    /\ all_edges_df = << [u |-> 3, v |-> 4], [u |-> 1, v |-> 2], [u |-> 2, v |-> 3] >>
    /\ path = "sorted" /\ way_err = NoErr
    /\ nd = <<1, 2, 3, 4>>

-----------------------------------------------------------------------------
(* The way-schema save of osm_xml.py: the edge frame, its groups, the way   *)
(* elements and their tags.  A cell of the frame is a Python number (PyInt, *)
(* or PyFloat in halves) or None for a null (NaN).  The text of a number is *)
(* the sequence of its decimal fields: <<12, 0>> is "12.0", <<5>> is "5".   *)

\* str(x) of a number
NumText(x) ==
    IF x = None THEN <<"nan">>
    ELSE IF x.t = "int" THEN <<x.v>>
    ELSE <<x.v \div 2, IF x.v % 2 = 0 THEN 0 ELSE 5>>

\* the non-null cells of a column of the rows, in row order
Cells(rows, tag) == SelectSeq([i \in DOMAIN rows |-> rows[i][tag]], LAMBDA x : x # None)

RECURSIVE SumOf(_)
SumOf(xs) == IF xs = <<>> THEN 0 ELSE Head(xs).v + SumOf(Tail(xs))

RECURSIVE MaxOf(_)
MaxOf(xs) ==
    IF Len(xs) = 1 THEN xs[1].v
    ELSE IF Head(xs).v >= MaxOf(Tail(xs)) THEN Head(xs).v ELSE MaxOf(Tail(xs))

\* all_edges_df[tag].aggregate(agg): nulls are skipped, the sum of no cell is
\* zero and the maximum of no cell is NaN; osmid is an integer column, any
\* other a float column
aggregate(rows, tag, agg) ==
    IF agg = "sum"
    THEN [t |-> IF tag = "osmid" THEN "int" ELSE "float", v |-> SumOf(Cells(rows, tag))]
    ELSE IF Cells(rows, tag) = <<>> THEN None
    ELSE [t |-> IF tag = "osmid" THEN "int" ELSE "float", v |-> MaxOf(Cells(rows, tag))]

\* all_way_edges.iloc[0].dropna().astype(str), on the columns a tag can name
Sample(row, columns) ==
    [c \in {c \in columns : row[c] # None} |-> NumText(row[c])]

TagElement(k, v) == [k |-> k, v |-> v]

\* for tag in edge_tags: a tag element with the sample edge's text, if it has
\* one and the tag is not one of those to skip
RECURSIVE SampleTags(_, _, _)
SampleTags(sample_edge, edge_tags, skip) ==
    IF edge_tags = <<>> THEN <<>>
    ELSE (IF Head(edge_tags) \in DOMAIN sample_edge /\ Head(edge_tags) \notin skip
          THEN <<TagElement(Head(edge_tags), sample_edge[Head(edge_tags)])>>
          ELSE <<>>) \o SampleTags(sample_edge, Tail(edge_tags), skip)

\* for tag, agg in edge_tag_aggs: a tag element with the text of the
\* aggregate, if the tag is a column
RECURSIVE AggTags(_, _, _)
AggTags(rows, columns, edge_tag_aggs) ==
    IF edge_tag_aggs = <<>> THEN <<>>
    ELSE (IF Head(edge_tag_aggs).tag \in columns
          THEN <<TagElement(Head(edge_tag_aggs).tag,
                            NumText(aggregate(rows, Head(edge_tag_aggs).tag,
                                              Head(edge_tag_aggs).agg)))>>
          ELSE <<>>) \o AggTags(rows, columns, Tail(edge_tag_aggs))

\* aggregated tags take the sample edge's text
SampleOnly(sample_edge, rows, columns, edge_tags, edge_tag_aggs) ==
    SampleTags(sample_edge, edge_tags, {})

\* _append_merged_edge_attrs(xml_edge, sample_edge, all_edges_df, edge_tags,
\* edge_tag_aggs): the tag elements appended to the way
_append_merged_edge_attrs(sample_edge, rows, columns, edge_tags, edge_tag_aggs) ==
    IF edge_tag_aggs = None THEN SampleTags(sample_edge, edge_tags, {})
    ELSE SampleTags(sample_edge, edge_tags,
                    {edge_tag_aggs.v[i].tag : i \in DOMAIN edge_tag_aggs.v})
         \o AggTags(rows, columns, edge_tag_aggs.v)

\* _save_graph_xml's edge frame: the "id" column is the uniqueid column
\* renamed, or else the row number
WithIds(rows, columns) ==
    [i \in DOMAIN rows |->
        [u |-> rows[i].u, v |-> rows[i].v, osmid |-> rows[i].osmid,
         length |-> rows[i].length,
         id |-> IF "uniqueid" \in columns THEN rows[i].uniqueid ELSE PyInt(i - 1)]]

\* the columns a tag can name, once the frame is prepared
TagColumns(columns) == {"osmid", "id"} \cup (columns \cap {"length"})

\* the extra columns of a group after gdf_edges.reset_index(inplace=True): none
\* when the frame kept its (u, v, key) index, "index" when its index was the
\* row number
GroupCols(columns) == IF "uniqueid" \in columns THEN {} ELSE {"index"}

WayElement(id, refs, tags) == [id |-> NumText(id), nd |-> refs, tags |-> tags]

\* the group of one id, rows in frame order
Group(rows, id) == SelectSeq(rows, LAMBDA r : r.id = id)

\* the group keys in ascending order
RECURSIVE SortedIds(_)
SortedIds(S) ==
    IF S = {} THEN <<>>
    ELSE LET m == CHOOSE m \in S : \A x \in S : m.v <= x.v
         IN  <<m>> \o SortedIds(S \ {m})

WayBefore(w, rest) == [ways |-> <<w>> \o rest.ways, err |-> rest.err]

RECURSIVE MergedWays(_, _, _, _, _)

\* one pass of the loop body, o being an outcome of _append_nodes_as_edge_attrs
MergedWay(rows, ids, columns, edge_tags, edge_tag_aggs, o) ==
    IF o.err # NoErr THEN {[ways |-> <<>>, err |-> o.err]}
    ELSE {WayBefore(WayElement(Head(ids), o.nd,
                        _append_merged_edge_attrs(
                            Sample(Group(rows, Head(ids))[1], TagColumns(columns)),
                            Group(rows, Head(ids)), TagColumns(columns),
                            edge_tags, edge_tag_aggs)), rest) :
            rest \in MergedWays(rows, Tail(ids), columns, edge_tags, edge_tag_aggs)}

\* for _, all_way_edges in gdf_edges.groupby("id"): the possible outcomes, each
\* with the way elements appended and the exception that escaped
MergedWays(rows, ids, columns, edge_tags, edge_tag_aggs) ==
    IF ids = <<>> THEN {[ways |-> <<>>, err |-> NoErr]}
    ELSE UNION {MergedWay(rows, ids, columns, edge_tags, edge_tag_aggs, o) :
                  o \in NodeRefs(Group(rows, Head(ids)), GroupCols(columns))}

\* _create_way_for_each_edge: a way of two nd refs for every row
_create_way_for_each_edge(rows, columns, edge_tags) ==
    [i \in DOMAIN rows |->
        WayElement(rows[i].id, <<rows[i].u, rows[i].v>>,
                   SampleTags(Sample(rows[i], TagColumns(columns)), edge_tags, {}))]

\* _append_edges_xml_tree(root, gdf_edges, edge_attrs, edge_tags,
\* edge_tag_aggs, merge_edges)
_append_edges_xml_tree(rows, columns, edge_tags, edge_tag_aggs, merge_edges) ==
    IF merge_edges
    THEN MergedWays(rows, SortedIds({rows[i].id : i \in DOMAIN rows}), columns,
                    edge_tags, edge_tag_aggs)
    ELSE {[ways |-> _create_way_for_each_edge(rows, columns, edge_tags), err |-> NoErr]}

\* _save_graph_xml(data, ..., edge_tags, ..., merge_edges, edge_tag_aggs, ...)
\* on the edge frame of data: the possible outcomes
_save_graph_xml(rows, columns, edge_tags, edge_tag_aggs, merge_edges) ==
    _append_edges_xml_tree(WithIds(rows, columns), columns, edge_tags, edge_tag_aggs,
                           merge_edges)

\* the parameters of _save_graph_xml
Parameters ==
    <<"data", "filepath", "node_tags", "node_attrs", "edge_tags", "edge_attrs", "oneway",
      "merge_edges", "edge_tag_aggs", "api_version", "precision">>

\* a call of _save_graph_xml with the positional arguments given: TypeError
\* when there are more of them than parameters
Forward(positional, rows, a) ==
    IF Len(positional) > Len(Parameters)
    THEN {[ways |-> <<>>, err |-> [type |-> "TypeError", by |-> "_save_graph_xml"]]}
    ELSE _save_graph_xml(rows, a.columns, a.edge_tags, a.edge_tag_aggs, a.merge_edges)

\* what a save left: the way elements of the document written (none when an
\* exception escaped) and the exception
Saved(entry, o) ==
    /\ root' = IF o.err = NoErr THEN o.ways ELSE <<>>
    /\ way_err' = o.err
    /\ path' = entry
    /\ pc' = "done"
    /\ UNCHANGED <<all_edges_df, cols, nd, way_log, gdf_edges, xml_args>>
    /\ UNCHANGED iovars
    /\ UNCHANGED saxvars

\* osm_xml.save_graph_xml(data, ...): the deprecated entry point passes its
\* eleven arguments on
SaveGraphXml ==
    /\ pc = "start"
    /\ xml_args # None
    /\ \E o \in Forward(Parameters, gdf_edges, xml_args) : Saved("osm_xml.save_graph_xml", o)

\* io.save_graph_xml(data, ..., way_tag_aggs): passes its twelve arguments on
IoSaveGraphXml ==
    /\ pc = "start"
    /\ xml_args # None
    /\ \E o \in Forward(Parameters \o <<"way_tag_aggs">>, gdf_edges, xml_args) :
           Saved("io.save_graph_xml", o)

\* the rows of an edge frame with the columns given: u, v, the way-membership
\* id osmid, a uniqueid and a length (None where the frame has no such column
\* or the cell is null)
XmlRows(columns) ==
    {[u |-> e[1], v |-> e[2], osmid |-> PyInt(w), uniqueid |-> q, length |-> l] :
        e \in {<<1, 2>>, <<2, 3>>}, w \in {1, 2},
        q \in IF "uniqueid" \in columns THEN {PyInt(1), PyInt(2)} ELSE {None},
        l \in IF "length" \in columns THEN {None, PyFloat(10), PyFloat(14)} ELSE {None}}

\* the edge_tag_aggs of a call: None or a list of (tag, agg) pairs
TagAggs ==
    {None, PyList(<<>>), PyList(<< [tag |-> "length", agg |-> "sum"] >>),
     PyList(<< [tag |-> "length", agg |-> "max"] >>),
     PyList(<< [tag |-> "osmid", agg |-> "max"] >>)}

\* the arguments of a save: the frame's optional columns, the way tags asked
\* for, the aggregations and merge_edges (which alone reads the aggregations)
XmlArgs ==
    {[columns |-> c, edge_tags |-> t, edge_tag_aggs |-> a, merge_edges |-> m] :
        c \in SUBSET {"uniqueid", "length"}, t \in {<<>>, <<"length">>},
        a \in TagAggs, m \in BOOLEAN}

InitXmlRun ==
    /\ xml_args \in {a \in XmlArgs : a.merge_edges \/ a.edge_tag_aggs = None}
    /\ gdf_edges \in UNION {[1..n -> XmlRows(xml_args.columns)] : n \in 1..MaxXmlEdges}
    /\ root = <<>>
    /\ all_edges_df = <<>> /\ cols = {} /\ nd = <<>> /\ way_err = NoErr
    /\ way_log = <<>> /\ path = NoName
    /\ InitSax
    /\ G = None /\ doc = None /\ filepath = NoName /\ graphml_str = None
    /\ graph_dtypes = None /\ node_dtypes = None /\ edge_dtypes = None
    /\ InitResult

NextXml == SaveGraphXml \/ IoSaveGraphXml

SpecXml == InitXmlRun /\ [][NextXml]_vars

-----------------------------------------------------------------------------
(* Claims about the way-schema save. *)

\* the edge frame as _append_edges_xml_tree groups it
Prepared == WithIds(gdf_edges, xml_args.columns)

\* the rows behind the k-th way element of a merged save
WayGroup(k) == Group(Prepared, SortedIds({Prepared[i].id : i \in DOMAIN Prepared})[k])

\* the tag elements of a way element that carry the key t
TagsNamed(w, t) == SelectSeq(w.tags, LAMBDA e : e.k = t)

\* the (tag, agg) pairs registered for the tag t
Registered(t) ==
    IF xml_args.edge_tag_aggs = None THEN <<>>
    ELSE SelectSeq(xml_args.edge_tag_aggs.v, LAMBDA q : q.tag = t)

Requested == {xml_args.edge_tags[i] : i \in DOMAIN xml_args.edge_tags}

\* a merged save through osm_xml's entry point has written its document
MergedSave ==
    /\ pc = "done" /\ path = "osm_xml.save_graph_xml"
    /\ xml_args.merge_edges /\ way_err = NoErr

C14_AsStated ==
    MergedSave =>
        Len(root) = Cardinality({gdf_edges[i].osmid : i \in DOMAIN gdf_edges})

\* C16: io.save_graph_xml, with any aggregations (None included), completes by
\* writing the document and raises nothing; with no aggregations a way's tag
\* is the value of the way's first edge.
C16_AsStated ==
    (pc = "done" /\ path = "io.save_graph_xml") =>
        /\ way_err = NoErr
        /\ root # <<>>
        /\ xml_args.edge_tag_aggs = None =>
               \A k \in DOMAIN root : \A t \in Requested :
                   WayGroup(k)[1][t] # None =>
                       TagsNamed(root[k], t) = <<TagElement(t, NumText(WayGroup(k)[1][t]))>>

\* C21: every tag element on a way record of a merged save has a key that is
\* one of the way tags asked for (edge_tags), whether its value came from the
\* sample edge or from an aggregation operator; a tag named only in the
\* aggregation list is not emitted.
C21_AsStated ==
    MergedSave =>
        \A k \in DOMAIN root : \A j \in DOMAIN root[k].tags :
            root[k].tags[j].k \in Requested

-----------------------------------------------------------------------------
(* Claims about the graph-level attributes of a load and of a save. *)

\* the graph-level attributes of the source whose text begins and ends with a
\* bracket pair
BracketedGraphAttrs ==
    {p \in AttrsOf(Src) : p[1] = "graph" /\ BracketShaped(ValOf(Src, p).v)}

\* the load as the claim words it: a bracketed graph-level text that is a
\* literal is parsed into its collection before any coercion
C17_AsStated ==
    pc = "done" =>
        \A p \in BracketedGraphAttrs :
            literal_eval(ValOf(Src, p).v).k = "ok" =>
                /\ (Resolve("graph", p[3]) = NoName /\ HasAttr(ret, p)) =>
                       ValOf(ret, p) = literal_eval(ValOf(Src, p).v).v
                /\ (Resolve("graph", p[3]) # NoName /\ Reached(p)) =>
                       \E k \in DOMAIN calls :
                           calls[k] = Called("graph", p[3], literal_eval(ValOf(Src, p).v).v)

\* C17: during load a graph-level attribute value is never structurally
\* parsed: a text that begins and ends with a bracket pair stays that text when
\* no coercion is registered for it, and a registered coercion is applied to
\* the text itself, not to a collection.
C17_GraphNotParsed ==
    pc = "done" =>
        \A p \in BracketedGraphAttrs :
            /\ (Resolve("graph", p[3]) = NoName /\ HasAttr(ret, p)) =>
                   ValOf(ret, p) = ValOf(Src, p)
            /\ (Resolve("graph", p[3]) # NoName /\ Reached(p)) =>
                   \E k \in DOMAIN calls : calls[k] = Called("graph", p[3], ValOf(Src, p))

\* a graph-level text "[1]" with no registered coercion has been loaded as the
\* text, where literal_eval makes the list of 1 of it
C17_Witness ==
    /\ pc = "done" /\ err = NoErr
    /\ HasAttr(Src, <<"graph", 1, "tag">>)
    /\ Resolve("graph", "tag") = NoName
    /\ ValOf(Src, <<"graph", 1, "tag">>) = PyStr(<<"[", "1", "]">>)
    /\ literal_eval(<<"[", "1", "]">>) = Ok(PyList(<<PyInt(1)>>))
    /\ ValOf(ret, <<"graph", 1, "tag">>) = PyStr(<<"[", "1", "]">>)

\* C18: the document save_graphml writes in unique-identifier mode has the
\* graph-level attributes, the nodes with their attributes and the edges
\* (origin, destination, attributes) of the document it writes in default mode
\* for the same graph; only the edge keys differ.
C18_AsStated ==
    [][(saves # <<>> /\ ~Last(saves) /\ saves' = Append(saves, TRUE)) =>
          /\ doc'.graph = doc.graph
          /\ {doc'.nodes[i] : i \in DOMAIN doc'.nodes} = {doc.nodes[i] : i \in DOMAIN doc.nodes}
          /\ Len(doc'.edges) = Len(doc.edges)
          /\ \A i \in DOMAIN doc.edges :
                 /\ doc'.edges[i].u = doc.edges[i].u
                 /\ doc'.edges[i].v = doc.edges[i].v
                 /\ doc'.edges[i].d = doc.edges[i].d]_vars

-----------------------------------------------------------------------------
(* The reader of foreign OSM XML: _overpass_json_from_file and the SAX      *)
(* content handler.  The dicts the handler creates live in a heap; _element *)
(* and the entries of the elements list are references into it (0 is None), *)
(* so that two references to one dict see each other's changes.  The parser *)
(* delivers the events of a well-formed document: a sub-element (tag, nd,   *)
(* member) has no children and comes as its start and its end at once.      *)

RecordNames == {"node", "way", "relation"}

StartEvent(name, attrs) == [kind |-> "start", name |-> name, attrs |-> attrs]
EndEvent(name) == [kind |-> "end", name |-> name]

\* the attributes of a node, way or relation element of the files read
RecordAttrs == [id |-> PyStr(<<"1">>)]

\* the sub-elements of the files read, with their attributes
SubElements ==
    {[name |-> "tag", attrs |-> [k |-> "a", v |-> "x"]],
     [name |-> "nd", attrs |-> [ref |-> PyStr(<<"1">>)]],
     [name |-> "member", attrs |-> [ref |-> PyStr(<<"2">>), type |-> "way"]]}

\* dict(type=name, tags={}, nodes=[], **attrs) with id made an int, or the
\* same with members=[] for a relation
NewRecord(name, attrs) ==
    IF name = "relation"
    THEN [type |-> name, tags |-> EmptyMap, members |-> <<>>, id |-> PyIntOf(attrs.id).v]
    ELSE [type |-> name, tags |-> EmptyMap, nodes |-> <<>>, id |-> PyIntOf(attrs.id).v]

\* {k: (int(v) if k == "ref" else v) for k, v in attrs.items()}
MemberOf(attrs) == [ref |-> PyIntOf(attrs.ref).v, type |-> attrs.type]

\* _OSMContentHandler.startElement(name, attrs) on the handler h
startElement(h, name, attrs) ==
    CASE name \in RecordNames ->
             Ok([h EXCEPT !.heap = Append(h.heap, NewRecord(name, attrs)),
                          !.cur = Len(h.heap) + 1])
      [] name = "tag" ->
             IF h.cur = 0 THEN Raise("TypeError", "startElement")
             ELSE Ok([h EXCEPT !.heap[h.cur].tags = Put(@, attrs.k, attrs.v)])
      [] name = "nd" ->
             IF h.cur = 0 THEN Raise("TypeError", "startElement")
             ELSE IF "nodes" \notin DOMAIN h.heap[h.cur] THEN Raise("KeyError", "startElement")
             ELSE IF PyIntOf(attrs.ref).k # "ok" THEN Raise("ValueError", "startElement")
             ELSE Ok([h EXCEPT !.heap[h.cur].nodes = Append(@, PyIntOf(attrs.ref).v)])
      [] name = "member" ->
             IF h.cur = 0 THEN Raise("TypeError", "startElement")
             ELSE IF "members" \notin DOMAIN h.heap[h.cur] THEN Raise("KeyError", "startElement")
             ELSE IF PyIntOf(attrs.ref).k # "ok" THEN Raise("ValueError", "startElement")
             ELSE Ok([h EXCEPT !.heap[h.cur].members = Append(@, MemberOf(attrs))])
      [] OTHER -> Ok(h)

\* an endElement that appends nothing
NoAppend(h, name) == h

\* _OSMContentHandler.endElement(name) on the handler h
endElement(h, name) ==
    IF name \in RecordNames THEN [h EXCEPT !.list = Append(h.list, h.cur)] ELSE h

\* endElement after a startElement that ended as r
ThenEnd(r, name) == IF r.k = "ok" THEN Ok(endElement(r.v, name)) ELSE r

\* the handler object
Handler == [heap |-> heap, cur |-> _element, list |-> elements]

\* the names of the elements open after the events evs, innermost last
RECURSIVE OpenStack(_)
OpenStack(evs) ==
    IF evs = <<>> THEN <<>>
    ELSE IF evs[Len(evs)].kind = "start"
         THEN Append(OpenStack(SubSeq(evs, 1, Len(evs) - 1)), evs[Len(evs)].name)
         ELSE SubSeq(OpenStack(SubSeq(evs, 1, Len(evs) - 1)), 1,
                     Len(OpenStack(SubSeq(evs, 1, Len(evs) - 1))) - 1)

\* the parser delivers the events evs and the handler's calls end as r: an
\* exception leaves xml.sax.parse and the with block, which closes the file
Deliver(evs, r) ==
    /\ events' = events \o evs
    /\ IF r.k = "ok"
       THEN /\ heap' = r.v.heap
            /\ _element' = r.v.cur
            /\ elements' = r.v.list
            /\ UNCHANGED <<sax_err, file_log, pc>>
       ELSE /\ sax_err' = Exc(r)
            /\ file_log' = Append(file_log, "close")
            /\ pc' = "done"
            /\ UNCHANGED <<heap, _element, elements>>
    /\ UNCHANGED <<wayvars, xmlvars>>
    /\ UNCHANGED iovars

\* _overpass_json_from_file(filepath) up to the start of the SAX parse: the
\* file is opened, parsed into a tree for its root attributes and closed, then
\* opened again and handed to xml.sax.parse with a new handler
OverpassJsonFromFile ==
    /\ pc = "start"
    /\ file_log' = <<"open", "ET.parse", "close", "open", "xml.sax.parse">>
    /\ pc' = "parsing"
    /\ UNCHANGED <<events, heap, _element, elements, sax_err>>
    /\ UNCHANGED <<wayvars, xmlvars>>
    /\ UNCHANGED iovars

\* the start tag of a node, way or relation
StartRecord ==
    /\ pc = "parsing"
    /\ Len(events) < MaxEvents
    /\ \E name \in RecordNames :
           Deliver(<<StartEvent(name, RecordAttrs)>>, startElement(Handler, name, RecordAttrs))

\* a tag, nd or member element
SubElement ==
    /\ pc = "parsing"
    /\ Len(events) + 2 <= MaxEvents
    /\ \E e \in SubElements :
           Deliver(<<StartEvent(e.name, e.attrs), EndEvent(e.name)>>,
                   ThenEnd(startElement(Handler, e.name, e.attrs), e.name))

\* the end tag of the innermost open element
EndRecord ==
    /\ pc = "parsing"
    /\ OpenStack(events) # <<>>
    /\ Deliver(<<EndEvent(Last(OpenStack(events)))>>,
               Ok(endElement(Handler, Last(OpenStack(events)))))

\* the end of the document: return handler.object, the with block closes the
\* file
EndDocument ==
    /\ pc = "parsing"
    /\ OpenStack(events) = <<>>
    /\ file_log' = Append(file_log, "close")
    /\ pc' = "done"
    /\ UNCHANGED <<events, heap, _element, elements, sax_err>>
    /\ UNCHANGED <<wayvars, xmlvars>>
    /\ UNCHANGED iovars

InitSaxRun ==
    /\ InitSax
    /\ InitXml
    /\ all_edges_df = <<>> /\ cols = {} /\ nd = <<>> /\ way_err = NoErr
    /\ way_log = <<>> /\ path = NoName
    /\ G = None /\ doc = None /\ filepath = NoName /\ graphml_str = None
    /\ graph_dtypes = None /\ node_dtypes = None /\ edge_dtypes = None
    /\ InitResult

NextSax == OverpassJsonFromFile \/ StartRecord \/ SubElement \/ EndRecord \/ EndDocument

SpecSax == InitSaxRun /\ [][NextSax]_vars

-----------------------------------------------------------------------------
(* Claims about the reader of foreign OSM XML. *)

\* the elements open just before the i-th event
OpenBefore(i) == OpenStack(SubSeq(events, 1, i - 1))

\* the record an element of the document is, by nesting alone: its own tag
\* sub-elements as a map, its own nd refs and its own members in order
NewFrame(name) == [type |-> name, tags |-> EmptyMap, nodes |-> <<>>, members |-> <<>>]

AddTo(f, e) ==
    CASE e.name = "tag" -> [f EXCEPT !.tags = Put(@, e.attrs.k, e.attrs.v)]
      [] e.name = "nd" -> [f EXCEPT !.nodes = Append(@, PyIntOf(e.attrs.ref).v)]
      [] e.name = "member" -> [f EXCEPT !.members = Append(@, MemberOf(e.attrs))]
      [] OTHER -> f

\* the records of the node, way and relation elements of evs in the order of
\* their end tags, read off the nesting with a stack of open records
RECURSIVE Nesting(_, _, _, _)
Nesting(evs, i, stack, out) ==
    IF i > Len(evs) THEN out
    ELSE IF evs[i].kind = "end"
    THEN IF evs[i].name \in RecordNames
         THEN Nesting(evs, i + 1, SubSeq(stack, 1, Len(stack) - 1), Append(out, Last(stack)))
         ELSE Nesting(evs, i + 1, stack, out)
    ELSE IF evs[i].name \in RecordNames
    THEN Nesting(evs, i + 1, Append(stack, NewFrame(evs[i].name)), out)
    ELSE IF stack = <<>> THEN Nesting(evs, i + 1, stack, out)
    ELSE Nesting(evs, i + 1, [stack EXCEPT ![Len(stack)] = AddTo(@, evs[i])], out)

NodeList(r) == IF "nodes" \in DOMAIN r THEN r.nodes ELSE <<>>
MemberList(r) == IF "members" \in DOMAIN r THEN r.members ELSE <<>>

\* the elements list holds the records of the document so far, one per ended
\* node, way or relation, in the order of the end tags
RecordsAsNested ==
    /\ sax_err = NoErr
    /\ Len(elements) = Len(Nesting(events, 1, <<>>, <<>>))
    /\ \A i \in DOMAIN elements :
           /\ heap[elements[i]].type = Nesting(events, 1, <<>>, <<>>)[i].type
           /\ heap[elements[i]].tags = Nesting(events, 1, <<>>, <<>>)[i].tags
           /\ NodeList(heap[elements[i]]) = Nesting(events, 1, <<>>, <<>>)[i].nodes
           /\ MemberList(heap[elements[i]]) = Nesting(events, 1, <<>>, <<>>)[i].members

\* every tag, nd and member element is inside a node, way or relation
AllNested ==
    \A i \in DOMAIN events :
        (events[i].kind = "start" /\ events[i].name \notin RecordNames) =>
            OpenBefore(i) # <<>>

\* the nesting of OSM XML: node, way and relation elements are not inside one
\* another, a tag is inside one of them, an nd inside a node or way, a member
\* inside a relation
Conforming ==
    \A i \in DOMAIN events :
        events[i].kind = "start" =>
            CASE events[i].name \in RecordNames -> OpenBefore(i) = <<>>
              [] events[i].name = "tag" -> OpenBefore(i) # <<>>
              [] events[i].name = "nd" ->
                     OpenBefore(i) # <<>> /\ Last(OpenBefore(i)) \in {"node", "way"}
              [] events[i].name = "member" ->
                     OpenBefore(i) # <<>> /\ Last(OpenBefore(i)) = "relation"
              [] OTHER -> TRUE

\* the handler as the claim words it: whenever every sub-element is nested
\* inside a node, way or relation, the elements list holds the records
C15_AsStated == AllNested => RecordsAsNested

\* C15: for an event stream nested as OSM XML is (node, way and relation
\* elements not inside one another, every tag inside one of them, every nd
\* inside a node or way, every member inside a relation) the handler raises
\* nothing and its elements list holds exactly one record per node, way or
\* relation element, in the order of the end tags, each with its own tags, its
\* own nd refs as integers and its own members in document order.
C15_Records == Conforming => RecordsAsNested

\* a node and then a way with one nd have been read: two records, the nd ref
\* in the way's node list only
C15_Witness ==
    /\ pc = "done" /\ sax_err = NoErr
    /\ Len(elements) = 2
    /\ heap[elements[1]].type = "node" /\ heap[elements[1]].nodes = <<>>
    /\ heap[elements[2]].type = "way" /\ heap[elements[2]].nodes = <<PyInt(1)>>

\* C19: the foreign load opens the file once and never parses it into a full
\* tree: the streaming parse is the only pass.
C19_AsStated ==
    /\ Cardinality({i \in DOMAIN file_log : file_log[i] = "open"}) <= 1
    /\ \A i \in DOMAIN file_log : file_log[i] # "ET.parse"

\* the heap places of the records open after the events evs, innermost last:
\* the k-th start of a node, way or relation made the k-th dict
RECURSIVE OpenRecords(_, _, _, _)
OpenRecords(evs, i, made, stack) ==
    IF i > Len(evs) THEN stack
    ELSE IF evs[i].name \notin RecordNames THEN OpenRecords(evs, i + 1, made, stack)
    ELSE IF evs[i].kind = "start"
    THEN OpenRecords(evs, i + 1, made + 1, Append(stack, made + 1))
    ELSE OpenRecords(evs, i + 1, made, SubSeq(stack, 1, Len(stack) - 1))

\* C20: a tag, nd or member element changes only the record of the innermost
\* open node, way or relation; a record in the elements list is never changed
\* again; a sub-element that arrives when no record is open changes nothing.
C20_AsStated ==
    [][/\ \A i \in DOMAIN elements : heap'[elements[i]] = heap[elements[i]]
       /\ Len(events') = Len(events) + 2 =>
              \A j \in DOMAIN heap :
                  (OpenRecords(events, 1, 0, <<>>) = <<>>
                   \/ j # Last(OpenRecords(events, 1, 0, <<>>))) => heap'[j] = heap[j]]_vars

====
